---- MODULE Spec2Model ----
(***************************************************************************)
(* A model of vikunja-mcp (src/src/vikunja_mcp/server.py): the config      *)
(* store, the instance resolver, the API client, the fan-out over the      *)
(* configured instances and the client-side query tools.                   *)
(*                                                                         *)
(* Data representation                                                     *)
(*   - a Python str that the code inspects character by character (urls,   *)
(*     tokens) is a sequence of one-character strings;                     *)
(*   - an insertion-ordered dict name -> entry is a sequence of records    *)
(*     with a `name` field and pairwise different names;                   *)
(*   - any other dict is a function, `k in d` being k \in DOMAIN d;        *)
(*   - None is NoneV.                                                      *)
(***************************************************************************)
EXTENDS Integers, Sequences, FiniteSets, TLC

VARIABLES
    configFile,  \* the contents of ~/.vikunja-mcp/config.yaml
    environ,     \* os.environ: the variables that are set, with their values
    remote,      \* the Vikunja servers: what each instance would answer
    now,         \* datetime.now(timezone.utc) of the running invocation
    call,        \* the last invocation: the operation and its arguments
    out,         \* what that invocation returned, or the exception it raised
    log,         \* the HTTP requests that invocation sent, in order
    tempFiles,   \* the temp files in ~/.vikunja-mcp: writer -> contents
    threads,     \* the invocations running concurrently, each with its locals
    tools        \* mcp._tool_manager._tools: the names of the registered tools

vars == <<configFile, environ, remote, now, call, out, log, tempFiles, threads, tools>>

----------------------------------------------------------------------------
(* Python values *)

NoneV == "<None>"

\* Python truthiness of an Optional[str] holding a name.
Truthy(name) == name \notin {NoneV, ""}

\* dict.get(k, default)
Get(d, k, default) == IF k \in DOMAIN d THEN d[k] ELSE default

\* The keys of an insertion-ordered dict, `name in d`, and d[name].
Keys(d) == {d[i].name : i \in 1..Len(d)}
Has(d, name) == \E i \in 1..Len(d) : d[i].name = name
Lookup(d, name) == d[CHOOSE i \in 1..Len(d) : d[i].name = name]

\* str.rstrip("/")
RECURSIVE RStripSlash(_)
RStripSlash(s) ==
    IF s = <<>> THEN s
    ELSE IF s[Len(s)] = "/" THEN RStripSlash(SubSeq(s, 1, Len(s) - 1))
    ELSE s

\* No invocation is running: the server waits for the next tool call.
NoCall == [op |-> "none"]
NoOut == [kind |-> "none"]

\* The result has been delivered to the MCP client; the server waits for the
\* next tool call.
Delivered ==
    /\ call # NoCall
    /\ call' = NoCall
    /\ out' = NoOut
    /\ log' = <<>>
    /\ UNCHANGED <<tools, tempFiles, threads, configFile, environ, remote, now>>

----------------------------------------------------------------------------
(* The MCP server: the tools it registers *)

\* The functions decorated with @mcp.tool(), in the order of the module.
Decorated ==
    <<"list_instances", "switch_instance", "get_context",
      "set_active_context", "get_active_context", "list_projects",
      "get_project", "create_project", "update_project", "delete_project",
      "list_tasks", "get_task", "create_task", "update_task",
      "complete_task", "delete_task", "list_labels", "create_label",
      "delete_label", "add_label_to_task", "list_views", "create_view",
      "get_kanban_view", "list_buckets", "create_bucket",
      "set_task_position", "create_task_relation", "list_task_relations",
      "overdue_tasks", "due_today", "due_this_week", "high_priority_tasks",
      "urgent_tasks", "focus_now", "task_summary", "unscheduled_tasks",
      "upcoming_deadlines", "check_xq", "setup_xq", "claim_xq_task",
      "complete_xq_task", "assign_user", "unassign_user", "set_reminders",
      "add_to_calendar", "delete_view", "update_view", "delete_bucket",
      "get_view_tasks", "list_tasks_by_bucket", "set_view_position",
      "create_filtered_view", "batch_create_tasks", "batch_update_tasks",
      "batch_set_positions", "bulk_create_labels", "bulk_relabel_tasks",
      "bulk_set_task_positions", "setup_kanban_board", "setup_project",
      "sort_bucket", "move_task_to_project",
      "move_task_to_project_by_name", "complete_tasks_by_label",
      "move_tasks_by_label", "move_tasks_by_label_to_buckets",
      "export_all_projects", "import_from_export",
      "analyze_project_dimensions", "check_token_health",
      "list_all_projects", "list_all_tasks", "search_all">>

\* FastMCP's add_tool: the tools are kept by name.
add_tool(registered, name) == registered \cup {name}

\* The tools once the module is imported.
Registry == {Decorated[i] : i \in DOMAIN Decorated}

----------------------------------------------------------------------------
(* Config file management *)

(* The file is absent, or holds a YAML document: a mapping from the top-  *)
(* level keys to nodes (the empty mapping for an empty file). A scalar     *)
(* node is its text, quoted or plain; the node of `instances` is the       *)
(* sequence of its entries, the node of `mcp_context` a mapping.           *)

Absent == [kind |-> "absent"]

Plain(text) == [quoted |-> FALSE, text |-> text]
Quoted(text) == [quoted |-> TRUE, text |-> text]

\* The plain scalars YAML reads as null.
NullTexts == {"null", "~", ""}

\* str(v) written as a plain scalar.
DumpNone(v) == IF v = NoneV THEN Plain("None") ELSE Plain(v)

\* yaml.dump and yaml.safe_load of an Optional[str]: None is written null, a
\* string that would read as null is written in quotes.
DumpStr(v) ==
    IF v = NoneV THEN Plain("null")
    ELSE IF v \in NullTexts THEN Quoted(v)
    ELSE Plain(v)

LoadStr(node) ==
    IF ~node.quoted /\ node.text \in NullTexts THEN NoneV ELSE node.text

\* ... of the instances: name -> {url, token}, in order.
DumpInstances(instances) ==
    [i \in DOMAIN instances |->
        [key |-> DumpStr(instances[i].name),
         url |-> instances[i].url, token |-> instances[i].token]]

LoadInstances(node) ==
    [i \in DOMAIN node |->
        [name |-> LoadStr(node[i].key), url |-> node[i].url, token |-> node[i].token]]

\* ... of mcp_context: instance (Optional[str]) and project_id (int).
DumpContext(context) ==
    [k \in DOMAIN context |->
        IF k = "instance" THEN DumpStr(context[k]) ELSE [int |-> context[k]]]

LoadContext(node) ==
    [k \in DOMAIN node |->
        IF k = "instance" THEN LoadStr(node[k]) ELSE node[k].int]

\* yaml.dump(config, sort_keys=False) and yaml.safe_load(f) or {}.
dump(config) ==
    [k \in DOMAIN config |->
        CASE k = "instances" -> DumpInstances(config[k])
          [] k = "current_instance" -> DumpStr(config[k])
          [] k = "mcp_context" -> DumpContext(config[k])
          [] OTHER -> config[k]]

safe_load(doc) ==
    [k \in DOMAIN doc |->
        CASE k = "instances" -> LoadInstances(doc[k])
          [] k = "current_instance" -> LoadStr(doc[k])
          [] k = "mcp_context" -> LoadContext(doc[k])
          [] OTHER -> doc[k]]

\* The keys _load_config fills in (current_instance is not one of them).
WithDefaults(config) ==
    [k \in DOMAIN config \cup {"instances", "xq", "mcp_context"} |->
        IF k \in DOMAIN config THEN config[k] ELSE <<>>]

\* _load_config: the defaults of a missing file, else the document with the
\* keys instances, xq and mcp_context filled in.
_load_config(file) ==
    IF file.kind = "absent"
    THEN [instances |-> <<>>, current_instance |-> NoneV,
          xq |-> <<>>, mcp_context |-> <<>>]
    ELSE WithDefaults(safe_load(file.doc))

\* The file after _save_config(config) has replaced it.
_save_config(config) == [kind |-> "file", doc |-> dump(config)]

----------------------------------------------------------------------------
(* Instance management *)

\* One entry of VIKUNJA_INSTANCES as _get_instances stores it.
EnvInstance(name, inst) ==
    [name |-> name,
     url |-> RStripSlash(Get(inst.fields, "url", <<>>)),
     token |-> Get(inst.fields, "token", <<>>)]

\* The array form, from element i on. An element that is no JSON object has
\* no .get: the AttributeError ends the loop and is swallowed, and what was
\* added before it stays.
RECURSIVE AddEnvList(_, _, _)
AddEnvList(instances, items, i) ==
    IF i > Len(items) THEN instances
    ELSE LET inst == items[i] IN
         IF inst.kind # "object" THEN instances
         ELSE LET name == Get(inst.fields, "name", "") IN
              IF name # "" /\ ~Has(instances, name)
              THEN AddEnvList(Append(instances, EnvInstance(name, inst)), items, i + 1)
              ELSE AddEnvList(instances, items, i + 1)

\* The object form, one entry. The name is tested before the value is
\* touched ("Config file takes precedence").
AddEnvDictOverriding(instances, name, inst) ==
    IF inst.kind # "object" THEN instances
    ELSE IF Has(instances, name)
    THEN [i \in 1..Len(instances) |->
             IF instances[i].name = name THEN EnvInstance(name, inst)
             ELSE instances[i]]
    ELSE Append(instances, EnvInstance(name, inst))

AddEnvDictEntry(instances, name, inst) ==
    IF Has(instances, name) THEN instances
    ELSE Append(instances, EnvInstance(name, inst))

\* The object form, from entry i on. A value that is no JSON object under a
\* name not yet defined has no .get: the AttributeError ends the loop and is
\* swallowed, and what was added before it stays.
RECURSIVE AddEnvDict(_, _, _)
AddEnvDict(instances, items, i) ==
    IF i > Len(items) THEN instances
    ELSE LET name == items[i].name
             inst == items[i].value IN
         IF ~Has(instances, name) /\ inst.kind # "object" THEN instances
         ELSE AddEnvDict(AddEnvDictEntry(instances, name, inst), items, i + 1)

\* The VIKUNJA_URL / VIKUNJA_TOKEN fallback.
AddEnvDefault(instances, env) ==
    LET env_url == Get(env, "VIKUNJA_URL", <<>>)
        env_token == Get(env, "VIKUNJA_TOKEN", <<>>)
    IN  IF env_url # <<>> /\ env_token # <<>> /\ ~Has(instances, "default")
        THEN Append(instances,
                    [name |-> "default", url |-> RStripSlash(env_url),
                     token |-> env_token])
        ELSE instances

\* The part of _get_instances that reads VIKUNJA_INSTANCES.
AddEnvJson(instances, env) ==
    LET env_instances == Get(env, "VIKUNJA_INSTANCES", [kind |-> "empty"])
    IN  CASE env_instances.kind = "list" -> AddEnvList(instances, env_instances.items, 1)
          [] env_instances.kind = "dict" -> AddEnvDict(instances, env_instances.items, 1)
          [] OTHER -> instances

_get_instances(file, env) ==
    AddEnvDefault(AddEnvJson(_load_config(file).instances, env), env)

\* The fallback of _get_current_instance: "default", else the first instance.
FirstOnly(instances) ==
    IF Len(instances) > 0 THEN instances[1].name ELSE NoneV

FirstAvailable(instances) ==
    IF Len(instances) > 0
    THEN IF Has(instances, "default") THEN "default" ELSE instances[1].name
    ELSE NoneV

_get_current_instance(file, env) ==
    LET config == _load_config(file)
        mcp_instance == Get(config.mcp_context, "instance", NoneV)
        current == Get(config, "current_instance", NoneV)
    IN  IF Truthy(mcp_instance) THEN mcp_instance
        ELSE IF Truthy(current) THEN current
        ELSE FirstAvailable(_get_instances(file, env))

\* "".join(chars): the name of the environment variable inside ${...}.
RECURSIVE Join(_)
Join(chars) == IF chars = <<>> THEN "" ELSE Head(chars) \o Join(Tail(chars))

\* token.startswith("${") and token.endswith("}")
IsEnvReference(token) ==
    /\ Len(token) >= 3
    /\ token[1] = "$"
    /\ token[2] = "{"
    /\ token[Len(token)] = "}"

\* The token as the instance's entry stores it: config.get("token", "").
LiteralToken(token, env) == token

\* The token of _get_instance_config: a ${VAR_NAME} reference is looked up in
\* the environment at this point; <<>> when the variable is unset or empty.
ResolveToken(token, env) ==
    IF token # <<>> /\ IsEnvReference(token)
    THEN Get(env, Join(SubSeq(token, 3, Len(token) - 1)), <<>>)
    ELSE token

\* An error message: its wording, and the instance names it lists if any.
Message(text) == [text |-> text]
MessageNaming(text, available) == [text |-> text, available |-> available]

ConfigError(message) == [kind |-> "error", error |-> Message(message)]

\* The end of _get_instance_config: the url and the token, `token` being the
\* instance's token after the lookup of a ${VAR_NAME} reference.
Credentials(name, instance, token) ==
    IF instance.token # <<>> /\ IsEnvReference(instance.token) /\ token = <<>>
    THEN ConfigError("Environment variable not set")
    ELSE IF instance.url = <<>> \/ token = <<>>
    THEN ConfigError("missing url or token")
    ELSE [kind |-> "ok", name |-> name, url |-> RStripSlash(instance.url),
          token |-> token]

\* _get_instance_config once the name (None: no instance is current) and the
\* instances are resolved.
InstanceConfig(name, instances, env) ==
    IF name = NoneV
    THEN IF Get(env, "VIKUNJA_URL", <<>>) # <<>> /\ Get(env, "VIKUNJA_TOKEN", <<>>) # <<>>
         THEN [kind |-> "ok", name |-> name, url |-> RStripSlash(env["VIKUNJA_URL"]),
               token |-> env["VIKUNJA_TOKEN"]]
         ELSE ConfigError("No instance configured")
    ELSE IF ~Has(instances, name) THEN ConfigError("not found")
    ELSE Credentials(name, Lookup(instances, name),
                     ResolveToken(Lookup(instances, name).token, env))

_get_instance_config(name, file, env) ==
    InstanceConfig(IF name = NoneV THEN _get_current_instance(file, env) ELSE name,
                   _get_instances(file, env), env)

----------------------------------------------------------------------------
(* Vikunja API client *)

\* The endpoints the modelled tools use.
ProjectsEP == [path |-> "/projects"]
TasksEP(project_id) == [path |-> "/projects/{id}/tasks", id |-> project_id]
UserEP == [path |-> "/user"]
InfoEP == [path |-> "/info"]

\* What the server at `url` answers to a request: a failure (no answer, or a
\* status >= 400) when the servers are set to fail it, else the JSON body
\* (`list`: it is a JSON array, not an object).
\* rem.servers maps a base url to the projects there; rem.failing is the set
\* of <<url, endpoint>> that fail.
Respond(rem, url, endpoint) ==
    LET base == RStripSlash(url) IN
    IF <<base, endpoint>> \in rem.failing \/ base \notin DOMAIN rem.servers
    THEN [kind |-> "fail"]
    ELSE LET projects == rem.servers[base] IN
         CASE endpoint.path = "/projects" ->
                [kind |-> "ok", list |-> TRUE,
                 data |-> [i \in DOMAIN projects |->
                              [id |-> projects[i].id, title |-> projects[i].title]]]
           [] endpoint.path = "/projects/{id}/tasks" ->
                IF \E i \in DOMAIN projects : projects[i].id = endpoint.id
                THEN [kind |-> "ok", list |-> TRUE,
                      data |-> projects[CHOOSE i \in DOMAIN projects :
                                           projects[i].id = endpoint.id].tasks]
                ELSE [kind |-> "fail"]
           [] OTHER -> [kind |-> "ok", list |-> FALSE, data |-> [version |-> "v"]]

\* One HTTP request as the servers see it.
HttpRequest(name, url, endpoint, bearer) ==
    [instance |-> name, url |-> url, endpoint |-> endpoint, bearer |-> bearer]

\* The end of _request: the response is turned into a value or an exception.
Receive(sent, response) ==
    IF response.kind = "fail"
    THEN [kind |-> "raise", error |-> Message("Vikunja API error"), sent |-> sent]
    ELSE [kind |-> "return", value |-> response.data, list |-> response.list,
          sent |-> sent]

\* _request once the credentials are resolved (cfg).
Send(cfg, endpoint, rem) ==
    IF cfg.kind = "error"
    THEN [kind |-> "raise", error |-> cfg.error, sent |-> <<>>]
    ELSE Receive(<<HttpRequest(cfg.name, cfg.url, endpoint, cfg.token)>>,
                 Respond(rem, cfg.url, endpoint))

\* _request: the value returned or the exception raised, and the HTTP
\* requests sent (none when the credentials cannot be resolved).
_request(endpoint, instance, file, env, rem) ==
    Send(_get_instance_config(instance, file, env), endpoint, rem)

\* item[key] = value on a JSON object.
Tag(item, key, value) ==
    [k \in DOMAIN item \cup {key} |-> IF k = key THEN value ELSE item[k]]

\* The instances a fan-out visits: all, or the one named by the filter.
\* (_request_all_instances and _get_all_tasks.)
SelectInstances(instances, filter_instance) ==
    IF filter_instance # ""
    THEN SelectSeq(instances, LAMBDA inst : inst.name = filter_instance)
    ELSE instances

\* What a fan-out loop goes on with after the request to the first of
\* `names` failed: the except clause logs and the loop continues.
AbortFanOut(names) == <<>>

RestAfterFailure(names) == Tail(names)

\* The loop of _request_all_instances over the instances left (names), and
\* its body once the request to the first of them is made (r).
RECURSIVE RequestAllLoop(_, _, _, _, _, _)
RequestAllStep(endpoint, names, acc, r, file, env, rem) ==
    IF r.kind = "raise"
    THEN RequestAllLoop(endpoint, RestAfterFailure(names),
                        [acc EXCEPT !.log = @ \o r.sent], file, env, rem)
    ELSE RequestAllLoop(endpoint, Tail(names),
             [results |-> acc.results \o
                  (IF r.list
                   THEN [i \in DOMAIN r.value |->
                            Tag(r.value[i], "_instance", Head(names).name)]
                   ELSE <<Tag(r.value, "_instance", Head(names).name)>>),
              log |-> acc.log \o r.sent],
             file, env, rem)

RequestAllLoop(endpoint, names, acc, file, env, rem) ==
    IF names = <<>> THEN acc
    ELSE RequestAllStep(endpoint, names, acc,
                        _request(endpoint, Head(names).name, file, env, rem),
                        file, env, rem)

_request_all_instances(endpoint, filter_instance, file, env, rem) ==
    RequestAllLoop(endpoint,
                   SelectInstances(_get_instances(file, env), filter_instance),
                   [results |-> <<>>, log |-> <<>>], file, env, rem)

----------------------------------------------------------------------------
(* Power query tools: fetching *)

\* What the loop over an instance's projects goes on with after the request
\* for the tasks of the first of `projects` failed: `except Exception: pass`
\* skips that project only.
RestOfProjects(projects) == Tail(projects)

\* The incomplete tasks among `tasks`, tagged as _get_all_tasks tags them.
OpenTasks(tasks, inst_name, proj) ==
    [i \in DOMAIN tasks |->
        Tag(Tag(tasks[i], "_instance", inst_name), "_project_title", proj.title)]

\* The inner loop of _get_all_tasks over the projects left of instance
\* inst_name, and its body once the request for the first one's tasks is made.
RECURSIVE ProjectTasksLoop(_, _, _, _, _, _)
ProjectTasksStep(inst_name, projects, acc, r, file, env, rem) ==
    IF r.kind = "raise"
    THEN ProjectTasksLoop(inst_name, RestOfProjects(projects),
                          [acc EXCEPT !.log = @ \o r.sent], file, env, rem)
    ELSE ProjectTasksLoop(inst_name, Tail(projects),
             [all_tasks |-> acc.all_tasks \o
                  OpenTasks(SelectSeq(r.value, LAMBDA t : ~t.done), inst_name,
                            Head(projects)),
              log |-> acc.log \o r.sent],
             file, env, rem)

ProjectTasksLoop(inst_name, projects, acc, file, env, rem) ==
    IF projects = <<>> THEN acc
    ELSE ProjectTasksStep(inst_name, projects, acc,
                          _request(TasksEP(Head(projects).id), inst_name, file, env, rem),
                          file, env, rem)

\* The outer loop of _get_all_tasks, and its body once the request for the
\* projects of the first instance is made.
RECURSIVE GetAllTasksLoop(_, _, _, _, _)
GetAllTasksStep(names, acc, r, file, env, rem) ==
    IF r.kind = "raise"
    THEN GetAllTasksLoop(RestAfterFailure(names), [acc EXCEPT !.log = @ \o r.sent],
                         file, env, rem)
    ELSE GetAllTasksLoop(Tail(names),
                         ProjectTasksLoop(Head(names).name, r.value,
                                          [acc EXCEPT !.log = @ \o r.sent],
                                          file, env, rem),
                         file, env, rem)

GetAllTasksLoop(names, acc, file, env, rem) ==
    IF names = <<>> THEN acc
    ELSE GetAllTasksStep(names, acc,
                         _request(ProjectsEP, Head(names).name, file, env, rem),
                         file, env, rem)

_get_all_tasks(instance, file, env, rem) ==
    GetAllTasksLoop(SelectInstances(_get_instances(file, env), instance),
                    [all_tasks |-> <<>>, log |-> <<>>], file, env, rem)

----------------------------------------------------------------------------
(* Dates.                                                                  *)
(* An instant is a number of ticks; a day has SecsPerDay seconds of        *)
(* TicksPerSec ticks (the microseconds). A due_date string is the sequence *)
(* <<era, day, second, tick>> of its fields, most significant first, so    *)
(* that strings compare as Python compares them; era 0 is the year 0001,   *)
(* era 2 the present. <<>> is a missing (or empty) due_date.               *)

TicksPerSec == 2
SecsPerDay == 2
WeekDays == 7

TicksPerDay == SecsPerDay * TicksPerSec

NoDue == <<>>
ZeroDate == <<0, 0, 0, 0>>     \* "0001-01-01T00:00:00Z"
HighKey == <<9>>               \* "9999"

\* a < b for two strings.
RECURSIVE StrLess(_, _)
StrLess(a, b) ==
    IF b = <<>> THEN FALSE
    ELSE IF a = <<>> THEN TRUE
    ELSE IF Head(a) # Head(b) THEN Head(a) < Head(b)
    ELSE StrLess(Tail(a), Tail(b))

\* datetime.fromisoformat(due.replace("Z", "+00:00")): whether it parses, and
\* the instant it denotes.
IsIsoFormat(due) == Len(due) = 4

FromIsoFormat(due) ==
    (due[1] - 2) * 1000 * TicksPerDay + due[2] * TicksPerDay + due[3] * TicksPerSec + due[4]

\* An Optional[datetime].
NoDate == [some |-> FALSE, at |-> 0]
SomeDate(instant) == [some |-> TRUE, at |-> instant]

_parse_due_date(task) ==
    LET due == task.due_date IN
    IF due = NoDue \/ due = ZeroDate THEN NoDate
    ELSE IF IsIsoFormat(due) THEN SomeDate(FromIsoFormat(due))
    ELSE NoDate

\* now.replace(hour=23, minute=59, second=59): the microsecond stays.
TodayEnd(t) ==
    (t \div TicksPerDay) * TicksPerDay + (SecsPerDay - 1) * TicksPerSec + (t % TicksPerSec)

\* now + timedelta(days=7)
WeekEnd(t) == t + WeekDays * TicksPerDay

\* datetime.date()
DateOf(t) == t \div TicksPerDay

----------------------------------------------------------------------------
(* Power query tools: filtering and sorting *)

\* list.sort(key=...): stable. Less(a, b) is key(a) < key(b).
Sorted(seq, Less(_, _)) ==
    LET n == Len(seq)
        Before(j, i) ==
            \/ Less(seq[j], seq[i])
            \/ ~Less(seq[i], seq[j]) /\ j < i
        Rank(i) == Cardinality({j \in 1..n : j # i /\ Before(j, i)}) + 1
    IN  [r \in 1..n |-> seq[CHOOSE i \in 1..n : Rank(i) = r]]

\* The record a query tool returns for a task.
Row(t) ==
    [id |-> t.id, title |-> t.title, due_date |-> t.due_date,
     priority |-> t.priority, project |-> t["_project_title"],
     instance |-> t["_instance"]]

\* The sort keys of the tools.
ByDueDate(x, y) == StrLess(x.due_date, y.due_date)
ByPriorityDesc(x, y) == x.priority > y.priority
ByPriorityThenDueDate(x, y) ==
    \/ x.priority > y.priority
    \/ x.priority = y.priority /\ StrLess(x.due_date, y.due_date)
OrHigh(due) == IF due = NoDue THEN HighKey ELSE due
ByFocus(x, y) ==
    \/ x.priority > y.priority
    \/ x.priority = y.priority /\ StrLess(OrHigh(x.due_date), OrHigh(y.due_date))

Listing(rows) == [tasks |-> rows, count |-> Len(rows)]

overdue_tasks(tasks, t) ==
    LET overdue == SelectSeq(tasks, LAMBDA x :
                       LET due == _parse_due_date(x) IN due.some /\ due.at < t)
    IN  Listing(Sorted([i \in DOMAIN overdue |-> Row(overdue[i])], ByDueDate))

due_today(tasks, t) ==
    LET today_end == TodayEnd(t)
        due == SelectSeq(tasks, LAMBDA x :
                   LET d == _parse_due_date(x) IN d.some /\ d.at <= today_end)
    IN  Listing(Sorted([i \in DOMAIN due |->
                           Tag(Row(due[i]), "overdue", _parse_due_date(due[i]).at < t)],
                       ByPriorityThenDueDate))

due_this_week(tasks, t) ==
    LET week_end == WeekEnd(t)
        due == SelectSeq(tasks, LAMBDA x :
                   LET d == _parse_due_date(x) IN d.some /\ d.at <= week_end)
    IN  Listing(Sorted([i \in DOMAIN due |-> Row(due[i])], ByDueDate))

high_priority_tasks(tasks) ==
    LET high == SelectSeq(tasks, LAMBDA x : x.priority >= 3)
    IN  Listing(Sorted([i \in DOMAIN high |-> Row(high[i])], ByPriorityDesc))

urgent_tasks(tasks) ==
    LET urgent == SelectSeq(tasks, LAMBDA x : x.priority >= 4)
    IN  Listing(Sorted([i \in DOMAIN urgent |-> Row(urgent[i])], ByPriorityDesc))

\* The test of focus_now, and the same with the threshold of high_priority_tasks.
IsFocusHigh(x, t) ==
    LET due == _parse_due_date(x)
    IN  (due.some /\ due.at < t) \/ x.priority >= 3

IsFocus(x, t) ==
    LET due == _parse_due_date(x)
        is_overdue == due.some /\ due.at < t
        is_high_priority == x.priority >= 4
    IN  is_overdue \/ is_high_priority

\* focus[:limit] when limit > 0, and the same without the test of limit.
TruncateAlways(focus, limit) ==
    SubSeq(focus, 1, IF limit < Len(focus) THEN limit ELSE Len(focus))

Truncate(focus, limit) ==
    IF limit > 0
    THEN SubSeq(focus, 1, IF limit < Len(focus) THEN limit ELSE Len(focus))
    ELSE focus

focus_now(tasks, limit, t) ==
    LET matching == SelectSeq(tasks, LAMBDA x : IsFocus(x, t))
        focus == Sorted([i \in DOMAIN matching |->
                            Tag(Row(matching[i]), "overdue",
                                LET due == _parse_due_date(matching[i])
                                IN  IF due.some THEN due.at < t ELSE NoneV)],
                        ByFocus)
        total == Len(focus)
        shown == Truncate(focus, limit)
    IN  [tasks |-> shown, count |-> Len(shown), total_matching |-> total]

\* len([x for x in tasks if P(x)])
Count(tasks, P(_)) == Cardinality({i \in DOMAIN tasks : P(tasks[i])})

\* task_summary with due_today counted up to, not including, today_end.
SummaryStrictToday(tasks, t) ==
    LET today_end == TodayEnd(t)
        week_end == WeekEnd(t)
        Due(x) == _parse_due_date(x)
    IN  [total |-> Len(tasks),
         overdue |-> Count(tasks, LAMBDA x : Due(x).some /\ Due(x).at < t),
         due_today |-> Count(tasks, LAMBDA x : Due(x).some /\ Due(x).at < today_end),
         due_this_week |-> Count(tasks, LAMBDA x : Due(x).some /\ Due(x).at <= week_end),
         high_priority |-> Count(tasks, LAMBDA x : x.priority >= 3),
         urgent |-> Count(tasks, LAMBDA x : x.priority >= 4),
         unscheduled |-> Count(tasks, LAMBDA x : ~Due(x).some)]

task_summary(tasks, t) ==
    LET today_end == TodayEnd(t)
        week_end == WeekEnd(t)
        Due(x) == _parse_due_date(x)
    IN  [total |-> Len(tasks),
         overdue |-> Count(tasks, LAMBDA x : Due(x).some /\ Due(x).at < t),
         due_today |-> Count(tasks, LAMBDA x : Due(x).some /\ Due(x).at <= today_end),
         due_this_week |-> Count(tasks, LAMBDA x : Due(x).some /\ Due(x).at <= week_end),
         high_priority |-> Count(tasks, LAMBDA x : x.priority >= 3),
         urgent |-> Count(tasks, LAMBDA x : x.priority >= 4),
         unscheduled |-> Count(tasks, LAMBDA x : ~Due(x).some)]

unscheduled_tasks(tasks) ==
    LET unscheduled == SelectSeq(tasks, LAMBDA x : ~_parse_due_date(x).some)
    IN  Listing([i \in DOMAIN unscheduled |->
                    [id |-> unscheduled[i].id, title |-> unscheduled[i].title,
                     priority |-> unscheduled[i].priority,
                     project |-> unscheduled[i]["_project_title"],
                     instance |-> unscheduled[i]["_instance"]]])

upcoming_deadlines(tasks, days, t) ==
    LET future == t + days * TicksPerDay
        upcoming == SelectSeq(tasks, LAMBDA x :
                        LET due == _parse_due_date(x)
                        IN  due.some /\ t <= due.at /\ due.at <= future)
    IN  Listing(Sorted([i \in DOMAIN upcoming |-> Row(upcoming[i])], ByDueDate))

----------------------------------------------------------------------------
(* Token health and cross-instance queries *)

\* check_token_health once the instance is looked up: the url and the token
\* are taken from the instance's entry as stored.
TokenHealth(name, config, token, rem) ==
    IF config.url = <<>> \/ token = <<>>
    THEN [result |-> [error |-> Message("Instance missing url or token")], log |-> <<>>]
    ELSE [result |-> [instance |-> name,
                      token_valid |-> Respond(rem, config.url, UserEP).kind = "ok"],
          log |-> <<HttpRequest(name, config.url, UserEP, token)>>]

CheckHealthOf(name, instances, env, rem) ==
    IF ~Truthy(name) \/ ~Has(instances, name)
    THEN [result |-> [error |-> Message("Unknown instance"),
                      available |-> [i \in DOMAIN instances |-> instances[i].name]],
          log |-> <<>>]
    ELSE TokenHealth(name, Lookup(instances, name),
                     LiteralToken(Lookup(instances, name).token, env), rem)

check_token_health(instance, file, env, rem) ==
    CheckHealthOf(IF instance # "" THEN instance ELSE _get_current_instance(file, env),
                  _get_instances(file, env), env, rem)

\* {instance: instances[instance]} if instance in instances else {}
\* (list_all_tasks and search_all.)
OnlyInstance(instances, instance) ==
    IF instance # ""
    THEN IF Has(instances, instance) THEN <<Lookup(instances, instance)>> ELSE <<>>
    ELSE instances

\* by_instance[name] = value
SetKey(d, name, value) ==
    [k \in DOMAIN d \cup {name} |-> IF k = name THEN value ELSE d[k]]

ErrorText == "Error"

RECURSIVE ListAllProjectsLoop(_, _, _, _, _)
ListAllProjectsStep(names, acc, r, file, env, rem) ==
    IF r.kind = "raise"
    THEN ListAllProjectsLoop(RestAfterFailure(names),
             [acc EXCEPT !.log = @ \o r.sent,
                         !.by_instance = SetKey(@, Head(names).name, ErrorText)],
             file, env, rem)
    ELSE ListAllProjectsLoop(Tail(names),
             [projects |-> acc.projects \o
                  [i \in DOMAIN r.value |->
                      [id |-> r.value[i].id, title |-> r.value[i].title,
                       instance |-> Head(names).name]],
              by_instance |-> SetKey(acc.by_instance, Head(names).name, Len(r.value)),
              log |-> acc.log \o r.sent],
             file, env, rem)

ListAllProjectsLoop(names, acc, file, env, rem) ==
    IF names = <<>> THEN acc
    ELSE ListAllProjectsStep(names, acc,
                             _request(ProjectsEP, Head(names).name, file, env, rem),
                             file, env, rem)

list_all_projects(file, env, rem) ==
    ListAllProjectsLoop(_get_instances(file, env),
                        [projects |-> <<>>, by_instance |-> <<>>, log |-> <<>>],
                        file, env, rem)

\* The body of list_all_tasks' loop over the tasks of a project: whether the
\* task is listed.
ListsTask(task, filter_due, include_done, t) ==
    LET due == task.due_date IN
    /\ include_done \/ ~task.done
    /\ IF filter_due # "" /\ due # NoDue
       THEN IF IsIsoFormat(due)
            THEN LET due_dt == FromIsoFormat(due) IN
                 CASE filter_due = "overdue" -> ~(due_dt >= t)
                   [] filter_due = "today" -> ~(DateOf(due_dt) # DateOf(t) /\ due_dt >= t)
                   [] filter_due = "week" -> ~(due_dt > WeekEnd(t) /\ due_dt >= t)
                   [] OTHER -> TRUE
            ELSE TRUE
       ELSE ~(filter_due # "" /\ due = NoDue)

\* The rows list_all_tasks builds from the tasks of a project that it lists.
TaskRows(listed, project, name) ==
    [i \in DOMAIN listed |->
        [id |-> listed[i].id, title |-> listed[i].title,
         project |-> project.title, project_id |-> project.id,
         due_date |-> listed[i].due_date,
         priority |-> listed[i].priority, instance |-> name]]

\* One instance's projects in list_all_tasks: any failed request raises out
\* of the loop, to the except clause of the instance.
RECURSIVE InstanceTasksLoop(_, _, _, _, _, _, _, _, _)
InstanceTasksStep(name, projects, acc, r, filter_due, include_done, t, file, env, rem) ==
    IF r.kind = "raise"
    THEN [acc EXCEPT !.log = @ \o r.sent, !.raised = TRUE]
    ELSE InstanceTasksLoop(name, Tail(projects),
             [acc EXCEPT !.log = @ \o r.sent,
                         !.instance_tasks = @ \o
                             TaskRows(SelectSeq(r.value, LAMBDA task :
                                          ListsTask(task, filter_due, include_done, t)),
                                      Head(projects), name)],
             filter_due, include_done, t, file, env, rem)

InstanceTasksLoop(name, projects, acc, filter_due, include_done, t, file, env, rem) ==
    IF projects = <<>> THEN acc
    ELSE InstanceTasksStep(name, projects, acc,
                           _request(TasksEP(Head(projects).id), name, file, env, rem),
                           filter_due, include_done, t, file, env, rem)

\* The loop of list_all_tasks over the instances left; its body once the
\* request for the projects is made (r), and once the projects are gone
\* through (inner).
RECURSIVE ListAllTasksLoop(_, _, _, _, _, _, _, _)
ListAllTasksEnd(names, acc, inner, filter_due, include_done, t, file, env, rem) ==
    IF inner.raised
    THEN ListAllTasksLoop(RestAfterFailure(names),
             [acc EXCEPT !.log = inner.log,
                         !.by_instance = SetKey(@, Head(names).name, ErrorText)],
             filter_due, include_done, t, file, env, rem)
    ELSE ListAllTasksLoop(Tail(names),
             [tasks |-> acc.tasks \o inner.instance_tasks,
              by_instance |-> SetKey(acc.by_instance, Head(names).name,
                                     Len(inner.instance_tasks)),
              log |-> inner.log],
             filter_due, include_done, t, file, env, rem)

ListAllTasksStep(names, acc, r, filter_due, include_done, t, file, env, rem) ==
    IF r.kind = "raise"
    THEN ListAllTasksLoop(RestAfterFailure(names),
             [acc EXCEPT !.log = @ \o r.sent,
                         !.by_instance = SetKey(@, Head(names).name, ErrorText)],
             filter_due, include_done, t, file, env, rem)
    ELSE ListAllTasksEnd(names, acc,
             InstanceTasksLoop(Head(names).name, r.value,
                 [instance_tasks |-> <<>>, log |-> acc.log \o r.sent, raised |-> FALSE],
                 filter_due, include_done, t, file, env, rem),
             filter_due, include_done, t, file, env, rem)

ListAllTasksLoop(names, acc, filter_due, include_done, t, file, env, rem) ==
    IF names = <<>> THEN acc
    ELSE ListAllTasksStep(names, acc,
                          _request(ProjectsEP, Head(names).name, file, env, rem),
                          filter_due, include_done, t, file, env, rem)

\* The final sort of list_all_tasks: due date, then priority.
ByDueDateThenPriority(x, y) ==
    \/ StrLess(OrHigh(x.due_date), OrHigh(y.due_date))
    \/ OrHigh(x.due_date) = OrHigh(y.due_date) /\ x.priority > y.priority

SortTasks(done) == [done EXCEPT !.tasks = Sorted(@, ByDueDateThenPriority)]

list_all_tasks(filter_due, include_done, instance, t, file, env, rem) ==
    SortTasks(ListAllTasksLoop(OnlyInstance(_get_instances(file, env), instance),
                               [tasks |-> <<>>, by_instance |-> <<>>, log |-> <<>>],
                               filter_due, include_done, t, file, env, rem))

\* str.lower() and `query in title`, on the letters the titles are made of.
LowerChar(c) == CASE c = "A" -> "a" [] c = "B" -> "b" [] OTHER -> c
Lower(str) == [i \in DOMAIN str |-> LowerChar(str[i])]
Contains(str, query) ==
    \E i \in 0..(Len(str) - Len(query)) : SubSeq(str, i + 1, i + Len(query)) = query

\* The matches of search_all in one project: the project, then its tasks.
ProjectMatch(p, name, query_lower) ==
    IF Contains(Lower(p.title), query_lower)
    THEN <<[type |-> "project", id |-> p.id, title |-> p.title, instance |-> name]>>
    ELSE <<>>

TaskMatches(found, p, name) ==
    [i \in DOMAIN found |->
        [type |-> "task", id |-> found[i].id, title |-> found[i].title,
         project |-> p.title, instance |-> name]]

\* One instance's projects in search_all: any failed request raises out of
\* the loop, to the except clause of the instance.
RECURSIVE SearchProjectsLoop(_, _, _, _, _, _, _)
SearchProjectsStep(name, projects, acc, r, query_lower, file, env, rem) ==
    IF r.kind = "raise"
    THEN [acc EXCEPT !.log = @ \o r.sent, !.raised = TRUE]
    ELSE SearchProjectsLoop(name, Tail(projects),
             [acc EXCEPT !.log = @ \o r.sent,
                         !.matches = @ \o ProjectMatch(Head(projects), name, query_lower)
                                       \o TaskMatches(
                                              SelectSeq(r.value, LAMBDA task :
                                                  Contains(Lower(task.title), query_lower)),
                                              Head(projects), name)],
             query_lower, file, env, rem)

SearchProjectsLoop(name, projects, acc, query_lower, file, env, rem) ==
    IF projects = <<>> THEN acc
    ELSE SearchProjectsStep(name, projects, acc,
                            _request(TasksEP(Head(projects).id), name, file, env, rem),
                            query_lower, file, env, rem)

RECURSIVE SearchAllLoop(_, _, _, _, _, _)
SearchAllEnd(names, acc, inner, query_lower, file, env, rem) ==
    IF inner.raised
    THEN SearchAllLoop(RestAfterFailure(names),
             [acc EXCEPT !.log = inner.log,
                         !.by_instance = SetKey(@, Head(names).name, ErrorText)],
             query_lower, file, env, rem)
    ELSE SearchAllLoop(Tail(names),
             [results |-> acc.results \o inner.matches,
              by_instance |-> SetKey(acc.by_instance, Head(names).name,
                                     Len(inner.matches)),
              log |-> inner.log],
             query_lower, file, env, rem)

SearchAllStep(names, acc, r, query_lower, file, env, rem) ==
    IF r.kind = "raise"
    THEN SearchAllLoop(RestAfterFailure(names),
             [acc EXCEPT !.log = @ \o r.sent,
                         !.by_instance = SetKey(@, Head(names).name, ErrorText)],
             query_lower, file, env, rem)
    ELSE SearchAllEnd(names, acc,
             SearchProjectsLoop(Head(names).name, r.value,
                 [matches |-> <<>>, log |-> acc.log \o r.sent, raised |-> FALSE],
                 query_lower, file, env, rem),
             query_lower, file, env, rem)

SearchAllLoop(names, acc, query_lower, file, env, rem) ==
    IF names = <<>> THEN acc
    ELSE SearchAllStep(names, acc,
                       _request(ProjectsEP, Head(names).name, file, env, rem),
                       query_lower, file, env, rem)

search_all(query, instance, file, env, rem) ==
    SearchAllLoop(OnlyInstance(_get_instances(file, env), instance),
                  [results |-> <<>>, by_instance |-> <<>>, log |-> <<>>],
                  Lower(query), file, env, rem)

----------------------------------------------------------------------------
(* Instance selection and session context *)

\* del context[key], when it is there.
Without(d, key) == [k \in DOMAIN d \ {key} |-> d[k]]

NamesOf(instances) == [i \in DOMAIN instances |-> instances[i].name]

\* _set_current_instance that leaves mcp_context alone.
SetCurrentOnly(config, name) == Tag(config, "current_instance", name)

\* config["current_instance"] = name; config["mcp_context"]["instance"] = name
SetCurrent(config, name) ==
    Tag(Tag(config, "current_instance", name),
        "mcp_context", Tag(config["mcp_context"], "instance", name))

\* _set_current_instance once the instances are resolved and the config is
\* loaded: the exception raised, or the file after the save.
SetCurrentIn(name, instances, config) ==
    IF ~Has(instances, name)
    THEN [kind |-> "raise",
          error |-> MessageNaming("not found", NamesOf(instances))]
    ELSE [kind |-> "return", file |-> _save_config(SetCurrent(config, name))]

_set_current_instance(name, file, env) ==
    SetCurrentIn(name, _get_instances(file, env), _load_config(file))

\* switch_instance after _set_current_instance (done).
SwitchedTo(name, done, env) ==
    IF done.kind = "raise" THEN [kind |-> "raise", error |-> done.error]
    ELSE [kind |-> "return", file |-> done.file,
          value |-> [switched_to |-> name,
                     url |-> Lookup(_get_instances(done.file, env), name).url]]

switch_instance(name, file, env) ==
    SwitchedTo(name, _set_current_instance(name, file, env), env)

\* set_active_context: mcp_context with the instance and the project set or
\* cleared.
WithInstance(context, instance) ==
    IF instance # "" THEN Tag(context, "instance", instance)
    ELSE Without(context, "instance")

\* set_active_context that keeps the project when project_id is 0.
WithProjectKept(context, project_id) ==
    IF project_id # 0 THEN Tag(context, "project_id", project_id)
    ELSE context

WithProject(context, project_id) ==
    IF project_id # 0 THEN Tag(context, "project_id", project_id)
    ELSE Without(context, "project_id")

\* The end of set_active_context: the file is saved and the context returned.
ContextSaved(context, file, env) ==
    [kind |-> "return", file |-> file,
     value |-> [instance |-> Get(context, "instance", NoneV),
                project_id |-> Get(context, "project_id", NoneV),
                available_instances |-> NamesOf(_get_instances(file, env))]]

ContextSet(context, config, env) ==
    ContextSaved(context, _save_config(Tag(config, "mcp_context", context)), env)

\* set_active_context that does not look the instance up.
ActiveContextUnvalidated(instance, project_id, config, file, env) ==
    ContextSet(WithProject(WithInstance(config["mcp_context"], instance),
                           project_id),
               config, env)

\* set_active_context that saves the project before it looks the instance up.
ActiveContextSavedFirst(instance, project_id, config, file, env) ==
    IF instance # "" /\ ~Has(_get_instances(file, env), instance)
    THEN [kind |-> "return",
          file |-> _save_config(Tag(config, "mcp_context",
                                    WithProject(config["mcp_context"], project_id))),
          value |-> [error |-> Message("not found")]]
    ELSE ContextSet(WithProject(WithInstance(config["mcp_context"], instance),
                                project_id),
                    config, env)

\* set_active_context once the config is loaded: an unknown instance returns
\* an error before anything is saved.
ActiveContextIn(instance, project_id, config, file, env) ==
    IF instance # "" /\ ~Has(_get_instances(file, env), instance)
    THEN [kind |-> "return", file |-> file,
          value |-> [error |-> Message("not found")]]
    ELSE ContextSet(WithProject(WithInstance(config["mcp_context"], instance),
                                project_id),
                    config, env)

set_active_context(instance, project_id, file, env) ==
    ActiveContextIn(instance, project_id, _load_config(file), file, env)

----------------------------------------------------------------------------
(* Kanban: moving tasks into buckets *)

ViewsEP(project_id) == [path |-> "/projects/{id}/views", id |-> project_id]
BucketsEP(project_id, view_id) ==
    [path |-> "/projects/{id}/views/{view}/buckets", id |-> project_id, view |-> view_id]
BucketTasksEP(project_id, view_id, bucket_id) ==
    [path |-> "/projects/{id}/views/{view}/buckets/{bucket}/tasks",
     id |-> project_id, view |-> view_id, bucket |-> bucket_id]
PositionEP(task_id) == [path |-> "/tasks/{id}/position", id |-> task_id]
TaskEP(task_id) == [path |-> "/tasks/{id}", id |-> task_id]
LabelsEP == [path |-> "/labels"]

\* The id the server gives the task it creates.
NewTaskId(title) == IF title = <<"n">> THEN 31 ELSE 32

\* What the server answers to a request with a method and a JSON body.
\* rem.server holds its tasks, views and buckets, rem.failing is the set of
\* <<method, endpoint>> that fail.
KanbanRespond(rem, method, endpoint, json) ==
    IF <<method, endpoint>> \in rem.failing THEN [kind |-> "fail"]
    ELSE CASE endpoint.path = "/projects/{id}/tasks" /\ method = "GET" ->
                [kind |-> "ok", data |-> rem.server.tasks]
           [] endpoint.path = "/projects/{id}/tasks" /\ method = "PUT" ->
                [kind |-> "ok", data |-> Tag(json, "id", NewTaskId(json.title))]
           [] endpoint.path = "/projects/{id}/views" ->
                [kind |-> "ok", data |-> rem.server.views]
           [] endpoint.path = "/projects/{id}/views/{view}/buckets" ->
                [kind |-> "ok", data |-> rem.server.buckets]
           [] endpoint.path = "/tasks/{id}" ->
                IF \E i \in DOMAIN rem.server.tasks : rem.server.tasks[i].id = endpoint.id
                THEN [kind |-> "ok",
                      data |-> IF method # "GET" THEN json
                               ELSE rem.server.tasks[CHOOSE i \in DOMAIN rem.server.tasks :
                                                        rem.server.tasks[i].id = endpoint.id]]
                ELSE [kind |-> "fail"]
           [] endpoint.path = "/labels" -> [kind |-> "ok", data |-> <<>>]
           [] OTHER -> [kind |-> "ok", data |-> json]

\* _request(method, endpoint, json=json) once the credentials are resolved.
JsonRequest(cfg, method, endpoint, json, rem) ==
    IF cfg.kind = "error"
    THEN [kind |-> "raise", error |-> cfg.error, sent |-> <<>>]
    ELSE Receive(<<[instance |-> cfg.name, url |-> cfg.url, endpoint |-> endpoint,
                    bearer |-> cfg.token, method |-> method, json |-> json]>>,
                 LET response == KanbanRespond(rem, method, endpoint, json)
                 IN  IF response.kind = "fail" THEN response
                     ELSE [kind |-> "ok", list |-> FALSE, data |-> response.data])

\* Call 1: add the task to the bucket.
AddToBucket(cfg, rem, project_id, view_id, bucket_id, task_id) ==
    JsonRequest(cfg, "POST", BucketTasksEP(project_id, view_id, bucket_id),
                [task_id |-> task_id, bucket_id |-> bucket_id,
                 project_view_id |-> view_id, project_id |-> project_id], rem)

\* Call 2: commit the bucket assignment.
CommitPosition(cfg, rem, view_id, bucket_id, task_id) ==
    JsonRequest(cfg, "POST", PositionEP(task_id),
                [project_view_id |-> view_id, task_id |-> task_id,
                 bucket_id |-> bucket_id], rem)

\* The two calls in a row: what was sent, and the exception if one raised.
AfterBoth(add, commit) ==
    IF commit.kind = "raise"
    THEN [kind |-> "raise", error |-> commit.error, sent |-> add.sent \o commit.sent]
    ELSE [kind |-> "return", sent |-> add.sent \o commit.sent]

\* A move that commits the position whatever the first call answered.
CommitAnyway(add, cfg, rem, view_id, bucket_id, task_id) ==
    AfterBoth(add, CommitPosition(cfg, rem, view_id, bucket_id, task_id))

\* The second call is made when the first has returned.
ThenCommit(add, cfg, rem, view_id, bucket_id, task_id) ==
    IF add.kind = "raise"
    THEN [kind |-> "raise", error |-> add.error, sent |-> add.sent]
    ELSE AfterBoth(add, CommitPosition(cfg, rem, view_id, bucket_id, task_id))

MoveToBucket(cfg, rem, project_id, view_id, bucket_id, task_id) ==
    ThenCommit(AddToBucket(cfg, rem, project_id, view_id, bucket_id, task_id),
               cfg, rem, view_id, bucket_id, task_id)

\* set_task_position
PositionSet(task_id, bucket_id, moved) ==
    IF moved.kind = "raise" THEN moved
    ELSE [kind |-> "return", sent |-> moved.sent,
          value |-> [task_id |-> task_id, bucket_id |-> bucket_id, moved |-> TRUE]]

set_task_position(task_id, project_id, view_id, bucket_id, cfg, rem) ==
    PositionSet(task_id, bucket_id,
                MoveToBucket(cfg, rem, project_id, view_id, bucket_id, task_id))

\* `not assignment.get(key)`
Missing(assignment, key) == key \notin DOMAIN assignment \/ assignment[key] = 0

Failure(text, task_id) == [text |-> text, task_id |-> task_id]

\* bulk_set_task_positions: acc is the result so far and what was sent.
RECURSIVE BulkLoop(_, _, _, _, _, _)
BulkStep(project_id, view_id, assignments, acc, moved, cfg, rem) ==
    BulkLoop(project_id, view_id, Tail(assignments),
             IF moved.kind = "raise"
             THEN [result |-> [acc.result EXCEPT !.errors =
                                  Append(@, Failure("Failed to move task",
                                                    Head(assignments).task_id))],
                   sent |-> acc.sent \o moved.sent]
             ELSE [result |-> [acc.result EXCEPT
                                  !.moved_count = @ + 1,
                                  !.tasks = Append(@, [task_id |-> Head(assignments).task_id,
                                                       bucket_id |-> Head(assignments).bucket_id,
                                                       success |-> TRUE])],
                   sent |-> acc.sent \o moved.sent],
             cfg, rem)

BulkLoop(project_id, view_id, assignments, acc, cfg, rem) ==
    IF assignments = <<>> THEN acc
    ELSE IF Missing(Head(assignments), "task_id") \/ Missing(Head(assignments), "bucket_id")
    THEN BulkLoop(project_id, view_id, Tail(assignments),
                  [acc EXCEPT !.result.errors =
                      Append(@, [text |-> "Invalid assignment",
                                 assignment |-> Head(assignments)])],
                  cfg, rem)
    ELSE BulkStep(project_id, view_id, assignments, acc,
                  MoveToBucket(cfg, rem, project_id, view_id,
                               Head(assignments).bucket_id, Head(assignments).task_id),
                  cfg, rem)

bulk_set_task_positions(project_id, view_id, assignments, cfg, rem) ==
    BulkLoop(project_id, view_id, assignments,
             [result |-> [moved_count |-> 0, tasks |-> <<>>, errors |-> <<>>],
              sent |-> <<>>],
             cfg, rem)

\* batch_update_tasks: the fields of an update that replace the task's.
UpdateKeys ==
    {"title", "description", "due_date", "start_date", "end_date", "priority",
     "reminders"}

Reminders(reminders) ==
    [i \in DOMAIN reminders |->
        [reminder |-> reminders[i], relative_period |-> 0, relative_to |-> ""]]

Updated(current, update) ==
    [k \in DOMAIN current \cup (DOMAIN update \cap UpdateKeys) |->
        IF k \notin DOMAIN update \cap UpdateKeys THEN current[k]
        ELSE IF k = "reminders" THEN Reminders(update[k])
        ELSE update[k]]

\* One more error in the result; what was sent is kept.
WithError(acc, error, sent) ==
    [result |-> [acc.result EXCEPT !.errors = Append(@, error)],
     sent |-> acc.sent \o sent]

\* One more entry done: the counter, and the entry's row in tasks.
WithDone(acc, counter, row, sent) ==
    [result |-> [acc.result EXCEPT ![counter] = @ + 1, !.tasks = Append(@, row)],
     sent |-> acc.sent \o sent]

RECURSIVE UpdateLoop(_, _, _, _)
UpdatePosted(updates, acc, sent, response, cfg, rem) ==
    UpdateLoop(Tail(updates),
               IF response.kind = "raise"
               THEN WithError(acc, Failure("Failed to update task",
                                           Head(updates).task_id),
                              sent \o response.sent)
               ELSE WithDone(acc, "updated",
                             [id |-> Head(updates).task_id,
                              title |-> Get(response.value, "title", <<>>)],
                             sent \o response.sent),
               cfg, rem)

UpdateFetched(updates, acc, current, cfg, rem) ==
    IF current.kind = "raise"
    THEN UpdateLoop(Tail(updates),
                    WithError(acc, Failure("Failed to update task",
                                           Head(updates).task_id),
                              current.sent),
                    cfg, rem)
    ELSE UpdatePosted(updates, acc, current.sent,
                      JsonRequest(cfg, "POST", TaskEP(Head(updates).task_id),
                                  Updated(current.value, Head(updates)), rem),
                      cfg, rem)

UpdateLoop(updates, acc, cfg, rem) ==
    IF updates = <<>> THEN acc
    ELSE IF Missing(Head(updates), "task_id")
    THEN UpdateLoop(Tail(updates),
                    WithError(acc, [text |-> "Update missing task_id"], <<>>),
                    cfg, rem)
    ELSE UpdateFetched(updates, acc,
                       JsonRequest(cfg, "GET", TaskEP(Head(updates).task_id),
                                   <<>>, rem),
                       cfg, rem)

batch_update_tasks(updates, cfg, rem) ==
    UpdateLoop(updates,
               [result |-> [updated |-> 0, tasks |-> <<>>, errors |-> <<>>],
                sent |-> <<>>],
               cfg, rem)

\* batch_set_positions. A position that is missing is None; 0 is a position.
RECURSIVE PositionsLoop(_, _, _, _, _)
\* A failure that ends the loop: the entries after it are not looked at.
PositionsStepLast(view_id, positions, acc, posted, cfg, rem) ==
    IF posted.kind = "raise"
    THEN WithError(acc, Failure("Failed to set position", Head(positions).task_id),
                   posted.sent)
    ELSE PositionsLoop(view_id, Tail(positions),
                       WithDone(acc, "updated",
                                [task_id |-> Head(positions).task_id,
                                 position |-> Head(positions).position],
                                posted.sent),
                       cfg, rem)

PositionsStep(view_id, positions, acc, posted, cfg, rem) ==
    PositionsLoop(view_id, Tail(positions),
                  IF posted.kind = "raise"
                  THEN WithError(acc, Failure("Failed to set position",
                                              Head(positions).task_id),
                                 posted.sent)
                  ELSE WithDone(acc, "updated",
                                [task_id |-> Head(positions).task_id,
                                 position |-> Head(positions).position],
                                posted.sent),
                  cfg, rem)

PositionsLoop(view_id, positions, acc, cfg, rem) ==
    IF positions = <<>> THEN acc
    ELSE IF Missing(Head(positions), "task_id")
            \/ "position" \notin DOMAIN Head(positions)
    THEN PositionsLoop(view_id, Tail(positions),
                       WithError(acc, [text |-> "Invalid position entry",
                                       pos |-> Head(positions)], <<>>),
                       cfg, rem)
    ELSE PositionsStep(view_id, positions, acc,
                       JsonRequest(cfg, "POST", PositionEP(Head(positions).task_id),
                                   [position |-> Head(positions).position,
                                    view_id |-> view_id], rem),
                       cfg, rem)

batch_set_positions(view_id, positions, cfg, rem) ==
    PositionsLoop(view_id, positions,
                  [result |-> [updated |-> 0, tasks |-> <<>>, errors |-> <<>>],
                   sent |-> <<>>],
                  cfg, rem)

\* " ".join(titles)
RECURSIVE JoinSpace(_)
JoinSpace(titles) ==
    IF titles = <<>> THEN <<>>
    ELSE IF Len(titles) = 1 THEN titles[1]
    ELSE titles[1] \o <<" ">> \o JoinSpace(Tail(titles))

\* [l.get("title", "").lower() for l in task.get("labels", [])]
LabelsOf(task) == [i \in DOMAIN task.labels |-> Lower(task.labels[i].title)]

\* move_tasks_by_label: the label filter is looked for in the joined labels.
RECURSIVE ByLabelLoop(_, _, _, _, _, _, _, _)
ByLabelStep(project_id, view_id, bucket_id, label_filter, tasks, acc, moved, cfg, rem) ==
    ByLabelLoop(project_id, view_id, bucket_id, label_filter, Tail(tasks),
                IF moved.kind = "raise"
                THEN [result |-> [acc.result EXCEPT !.errors =
                                     Append(@, Failure("Failed to move task",
                                                       Head(tasks).id))],
                      sent |-> acc.sent \o moved.sent]
                ELSE [result |-> [acc.result EXCEPT
                                     !.moved = @ + 1,
                                     !.tasks = Append(@, [id |-> Head(tasks).id,
                                                          title |-> Head(tasks).title])],
                      sent |-> acc.sent \o moved.sent],
                cfg, rem)

ByLabelLoop(project_id, view_id, bucket_id, label_filter, tasks, acc, cfg, rem) ==
    IF tasks = <<>> THEN acc
    ELSE IF Head(tasks).done
            \/ ~Contains(JoinSpace(LabelsOf(Head(tasks))), Lower(label_filter))
    THEN ByLabelLoop(project_id, view_id, bucket_id, label_filter, Tail(tasks),
                     acc, cfg, rem)
    ELSE ByLabelStep(project_id, view_id, bucket_id, label_filter, tasks, acc,
                     MoveToBucket(cfg, rem, project_id, view_id, bucket_id,
                                  Head(tasks).id),
                     cfg, rem)

\* The tool after its GET of the project's tasks, which is outside any try.
ByLabelFetched(project_id, view_id, bucket_id, label_filter, fetched, cfg, rem) ==
    IF fetched.kind = "raise" THEN fetched
    ELSE LET acc == ByLabelLoop(project_id, view_id, bucket_id, label_filter,
                                fetched.value,
                                [result |-> [moved |-> 0, tasks |-> <<>>, errors |-> <<>>],
                                 sent |-> fetched.sent],
                                cfg, rem)
         IN  [kind |-> "return", value |-> acc.result, sent |-> acc.sent]

move_tasks_by_label(project_id, label_filter, view_id, bucket_id, cfg, rem) ==
    ByLabelFetched(project_id, view_id, bucket_id, label_filter,
                   JsonRequest(cfg, "GET", TasksEP(project_id), <<>>, rem), cfg, rem)

\* move_tasks_by_label_to_buckets: one pass over the tasks for each label of
\* the map, the label matched against the task's labels as a whole.
RECURSIVE ToBucketsTasks(_, _, _, _, _, _, _)
ToBucketsStep(project_id, view_id, entry, tasks, acc, moved, cfg, rem) ==
    ToBucketsTasks(project_id, view_id, entry, Tail(tasks),
                   IF moved.kind = "raise"
                   THEN [result |-> [acc.result EXCEPT !.errors =
                                        Append(@, Failure("Failed to move task",
                                                          Head(tasks).id))],
                         sent |-> acc.sent \o moved.sent]
                   ELSE [result |-> [acc.result EXCEPT
                                        !.moved_count = @ + 1,
                                        !.by_label = [i \in DOMAIN @ |->
                                            IF @[i].name = entry.name
                                            THEN [@[i] EXCEPT !.count = @ + 1]
                                            ELSE @[i]]],
                         sent |-> acc.sent \o moved.sent],
                   cfg, rem)

ToBucketsTasks(project_id, view_id, entry, tasks, acc, cfg, rem) ==
    IF tasks = <<>> THEN acc
    ELSE IF Head(tasks).done
            \/ \A i \in DOMAIN Head(tasks).labels :
                  LabelsOf(Head(tasks))[i] # Lower(entry.name)
    THEN ToBucketsTasks(project_id, view_id, entry, Tail(tasks), acc, cfg, rem)
    ELSE ToBucketsStep(project_id, view_id, entry, tasks, acc,
                       MoveToBucket(cfg, rem, project_id, view_id, entry.bucket,
                                    Head(tasks).id),
                       cfg, rem)

RECURSIVE ToBucketsLoop(_, _, _, _, _, _, _)
ToBucketsLoop(project_id, view_id, map, tasks, acc, cfg, rem) ==
    IF map = <<>> THEN acc
    ELSE ToBucketsLoop(project_id, view_id, Tail(map), tasks,
                       ToBucketsTasks(project_id, view_id, Head(map), tasks,
                                      [acc EXCEPT !.result.by_label =
                                          Append(@, [name |-> Head(map).name, count |-> 0])],
                                      cfg, rem),
                       cfg, rem)

ToBucketsFetched(project_id, view_id, map, fetched, cfg, rem) ==
    IF fetched.kind = "raise" THEN fetched
    ELSE LET acc == ToBucketsLoop(project_id, view_id, map, fetched.value,
                                  [result |-> [moved_count |-> 0, by_label |-> <<>>,
                                               errors |-> <<>>],
                                   sent |-> fetched.sent],
                                  cfg, rem)
         IN  [kind |-> "return", value |-> acc.result, sent |-> acc.sent]

move_tasks_by_label_to_buckets(project_id, view_id, label_to_bucket_map, cfg, rem) ==
    ToBucketsFetched(project_id, view_id, label_to_bucket_map,
                     JsonRequest(cfg, "GET", TasksEP(project_id), <<>>, rem), cfg, rem)

\* {b["title"]: b["id"] for b in buckets}.get(title): the last bucket of that
\* title, 0 standing for None.
BucketId(buckets, title) ==
    IF \A i \in DOMAIN buckets : buckets[i].title # title THEN 0
    ELSE buckets[CHOOSE i \in DOMAIN buckets :
                    /\ buckets[i].title = title
                    /\ \A j \in DOMAIN buckets : buckets[j].title = title => j <= i].id

KanbanViews(views) == SelectSeq(views, LAMBDA v : v.view_kind = "kanban")

\* _get_xq_kanban_view: the first kanban view of the project and its buckets.
XqBuckets(view_id, buckets, sent) ==
    IF buckets.kind = "raise"
    THEN [kind |-> "raise", error |-> buckets.error, sent |-> sent \o buckets.sent]
    ELSE [kind |-> "return", sent |-> sent \o buckets.sent,
          value |-> [view_id |-> view_id, buckets |-> buckets.value]]

XqViews(views, project_id, cfg, rem) ==
    IF views.kind = "raise" THEN views
    ELSE IF KanbanViews(views.value) = <<>>
    THEN [kind |-> "return", sent |-> views.sent,
          value |-> [error |-> Message("No kanban view found")]]
    ELSE XqBuckets(KanbanViews(views.value)[1].id,
                   JsonRequest(cfg, "GET",
                               BucketsEP(project_id, KanbanViews(views.value)[1].id),
                               <<>>, rem),
                   views.sent)

_get_xq_kanban_view(project_id, cfg, rem) ==
    XqViews(JsonRequest(cfg, "GET", ViewsEP(project_id), <<>>, rem),
            project_id, cfg, rem)

\* claim_xq_task moves into the Review bucket, complete_xq_task into Filed.
XqBucketTitle(op) == IF op = "claim_xq_task" THEN "Review" ELSE "Filed"

XqMoved(op, instance, task_id, sent, task, moved) ==
    IF moved.kind = "raise"
    THEN [kind |-> "raise", error |-> moved.error, sent |-> sent \o moved.sent]
    ELSE [kind |-> "return", sent |-> sent \o moved.sent,
          value |-> IF op = "claim_xq_task"
                    THEN [claimed |-> task_id, title |-> task.title,
                          moved_to |-> XqBucketTitle(op), instance |-> instance]
                    ELSE [filed |-> task_id, title |-> task.title,
                          instance |-> instance]]

\* complete_xq_task: the task is marked done before it is moved.
XqUpdated(op, instance, task_id, project_id, view_id, bucket_id, sent, task, updated,
          cfg, rem) ==
    IF updated.kind = "raise"
    THEN [kind |-> "raise", error |-> updated.error, sent |-> sent \o updated.sent]
    ELSE XqMoved(op, instance, task_id, sent \o updated.sent, task,
                 MoveToBucket(cfg, rem, project_id, view_id, bucket_id, task_id))

\* The filing note: destination, time and, when there are any, the notes.
Filing(destination, notes, t) ==
    <<"Filed to", destination, "Filed at", t>>
    \o (IF notes # "" THEN <<"Notes", notes>> ELSE <<>>)

\* An update that puts the filing note in place of the description.
CompletionReplacing(task, filing) == [description |-> filing, done |-> TRUE]

\* The update complete_xq_task sends: (task.get("description", "") or "")
\* + filing, and done.
Completion(task, filing) ==
    [description |-> Get(task, "description", <<>>) \o filing, done |-> TRUE]

XqWithTask(op, instance, task_id, project_id, view_id, bucket_id, sent, task, filing,
           cfg, rem) ==
    IF task.kind = "raise"
    THEN [kind |-> "raise", error |-> task.error, sent |-> sent \o task.sent]
    ELSE IF op = "complete_xq_task"
    THEN XqUpdated(op, instance, task_id, project_id, view_id, bucket_id,
                   sent \o task.sent, task.value,
                   JsonRequest(cfg, "POST", TaskEP(task_id),
                               Completion(task.value, filing), rem),
                   cfg, rem)
    ELSE XqMoved(op, instance, task_id, sent \o task.sent, task.value,
                 MoveToBucket(cfg, rem, project_id, view_id, bucket_id, task_id))

XqWithView(op, instance, task_id, project_id, info, filing, cfg, rem) ==
    IF info.kind = "raise" THEN info
    ELSE IF "error" \in DOMAIN info.value
    THEN [kind |-> "return", sent |-> info.sent,
          value |-> IF op = "claim_xq_task"
                    THEN [error |-> info.value.error, hint |-> "Run setup_xq first"]
                    ELSE info.value]
    ELSE IF BucketId(info.value.buckets, XqBucketTitle(op)) = 0
    THEN [kind |-> "return", sent |-> info.sent,
          value |-> [error |-> Message("No bucket. Run setup_xq first.")]]
    ELSE XqWithTask(op, instance, task_id, project_id, info.value.view_id,
                    BucketId(info.value.buckets, XqBucketTitle(op)), info.sent,
                    JsonRequest(cfg, "GET", TaskEP(task_id), <<>>, rem), filing,
                    cfg, rem)

XqConfigured(op, instance, task_id, project_id, filing, cfg, rem) ==
    XqWithView(op, instance, task_id, project_id,
               _get_xq_kanban_view(project_id, cfg, rem), filing, cfg, rem)

XqTask(op, instance, task_id, xq_config, filing, file, env, rem) ==
    IF instance \notin DOMAIN xq_config
    THEN [kind |-> "return", sent |-> <<>>,
          value |-> [error |-> Message("X-Q not configured")]]
    ELSE XqConfigured(op, instance, task_id, xq_config[instance], filing,
                      _get_instance_config(instance, file, env), rem)

claim_xq_task(instance, task_id, file, env, rem) ==
    XqTask("claim_xq_task", instance, task_id, _load_config(file).xq, <<>>,
           file, env, rem)

complete_xq_task(instance, task_id, destination, notes, t, file, env, rem) ==
    XqTask("complete_xq_task", instance, task_id, _load_config(file).xq,
           Filing(destination, notes, t), file, env, rem)

\* batch_create_tasks, for tasks that carry a title and maybe a bucket (no
\* labels, no ref: the label loop and the relation loop then send nothing).
RECURSIVE BatchLoop(_, _, _, _, _, _, _)
BatchFailed(acc, task_input, sent) ==
    [result |-> [acc.result EXCEPT !.errors =
                    Append(@, [text |-> "Failed to create", title |-> task_input.title])],
     sent |-> acc.sent \o sent]

BatchDone(acc, task_input, task_id, sent) ==
    [result |-> [acc.result EXCEPT
                    !.created = @ + 1,
                    !.tasks = Append(@, [ref |-> "", id |-> task_id,
                                         title |-> task_input.title])],
     sent |-> acc.sent \o sent]

BatchMoved(project_id, tasks, view_id, buckets, acc, created, moved, cfg, rem) ==
    BatchLoop(project_id, Tail(tasks), view_id, buckets,
              IF moved.kind = "raise"
              THEN BatchFailed(acc, Head(tasks), created.sent \o moved.sent)
              ELSE BatchDone(acc, Head(tasks), created.value.id,
                             created.sent \o moved.sent),
              cfg, rem)

BatchCreated(project_id, tasks, view_id, buckets, acc, created, cfg, rem) ==
    IF created.kind = "raise"
    THEN BatchLoop(project_id, Tail(tasks), view_id, buckets,
                   BatchFailed(acc, Head(tasks), created.sent), cfg, rem)
    ELSE IF "bucket" \in DOMAIN Head(tasks)
            /\ BucketId(buckets, Head(tasks).bucket) # 0
    THEN BatchMoved(project_id, tasks, view_id, buckets, acc, created,
                    MoveToBucket(cfg, rem, project_id, view_id,
                                 BucketId(buckets, Head(tasks).bucket),
                                 created.value.id),
                    cfg, rem)
    ELSE BatchLoop(project_id, Tail(tasks), view_id, buckets,
                   BatchDone(acc, Head(tasks), created.value.id, created.sent),
                   cfg, rem)

BatchLoop(project_id, tasks, view_id, buckets, acc, cfg, rem) ==
    IF tasks = <<>> THEN acc
    ELSE BatchCreated(project_id, tasks, view_id, buckets, acc,
                      JsonRequest(cfg, "PUT", TasksEP(project_id),
                                  [title |-> Head(tasks).title,
                                   project_id |-> project_id], rem),
                      cfg, rem)

BatchStarted(project_id, tasks, view_id, buckets, sent, cfg, rem) ==
    LET acc == BatchLoop(project_id, tasks, view_id, buckets,
                         [result |-> [created |-> 0, tasks |-> <<>>,
                                      labels_created |-> <<>>,
                                      relations_created |-> 0, errors |-> <<>>],
                          sent |-> sent],
                         cfg, rem)
    IN  [kind |-> "return", value |-> acc.result, sent |-> acc.sent]

\* The bucket map: the buckets of the first kanban view, when a task names a
\* bucket.
BatchWithBuckets(project_id, tasks, view_id, buckets, sent, cfg, rem) ==
    IF buckets.kind = "raise"
    THEN [kind |-> "raise", error |-> buckets.error, sent |-> sent \o buckets.sent]
    ELSE BatchStarted(project_id, tasks, view_id, buckets.value,
                      sent \o buckets.sent, cfg, rem)

BatchWithViews(project_id, tasks, views, sent, cfg, rem) ==
    IF views.kind = "raise"
    THEN [kind |-> "raise", error |-> views.error, sent |-> sent \o views.sent]
    ELSE IF KanbanViews(views.value) = <<>>
    THEN BatchStarted(project_id, tasks, 0, <<>>, sent \o views.sent, cfg, rem)
    ELSE BatchWithBuckets(project_id, tasks, KanbanViews(views.value)[1].id,
                          JsonRequest(cfg, "GET",
                                      BucketsEP(project_id,
                                                KanbanViews(views.value)[1].id),
                                      <<>>, rem),
                          sent \o views.sent, cfg, rem)

BatchWithLabels(project_id, tasks, labels, cfg, rem) ==
    IF labels.kind = "raise" THEN labels
    ELSE IF \E i \in DOMAIN tasks : "bucket" \in DOMAIN tasks[i]
    THEN BatchWithViews(project_id, tasks,
                        JsonRequest(cfg, "GET", ViewsEP(project_id), <<>>, rem),
                        labels.sent, cfg, rem)
    ELSE BatchStarted(project_id, tasks, 0, <<>>, labels.sent, cfg, rem)

batch_create_tasks(project_id, tasks, cfg, rem) ==
    BatchWithLabels(project_id, tasks,
                    JsonRequest(cfg, "GET", LabelsEP, <<>>, rem), cfg, rem)

----------------------------------------------------------------------------
(* Kanban board setup *)

KANBAN_TEMPLATES ==
    [gtd |-> <<"Inbox", "Next", "Waiting", "Someday", "Done">>,
     sprint |-> <<"Backlog", "To Do", "In Progress", "Review", "Done">>,
     kitchen |-> <<"Idea", "Planning", "Shopping", "Prep", "Cooking", "Plating",
                   "Cleanup", "Photo", "Done">>,
     simple |-> <<"To Do", "Doing", "Done">>]

ProjectsRootEP == [path |-> "/projects"]
BucketEP(project_id, view_id, bucket_id) ==
    [path |-> "/projects/{id}/views/{view}/buckets/{bucket}",
     id |-> project_id, view |-> view_id, bucket |-> bucket_id]

\* The buckets the server puts into a kanban view it creates.
DefaultBuckets == <<"To-Do", "Doing">>

\* The server creates a project, a view (with its default buckets when
\* rem.auto) or a bucket: the next id of its kind.
ProjectCreated(rem, json) ==
    [kind |-> "ok",
     data |-> [id |-> rem.ids.projects + 1, title |-> json.title],
     rem |-> [rem EXCEPT !.projects = Append(@, [id |-> rem.ids.projects + 1,
                                                 title |-> json.title]),
                         !.ids.projects = @ + 1]]

ViewCreated(rem, project_id, json) ==
    [kind |-> "ok",
     data |-> [id |-> rem.ids.views + 1, project_id |-> project_id,
               title |-> json.title, view_kind |-> json.view_kind],
     rem |-> [rem EXCEPT
                 !.views = Append(@, [id |-> rem.ids.views + 1,
                                      project_id |-> project_id,
                                      title |-> json.title,
                                      view_kind |-> json.view_kind]),
                 !.ids.views = @ + 1,
                 !.buckets = IF ~rem.auto THEN @
                             ELSE @ \o [i \in DOMAIN DefaultBuckets |->
                                           [id |-> rem.ids.buckets + i,
                                            view_id |-> rem.ids.views + 1,
                                            title |-> DefaultBuckets[i]]],
                 !.ids.buckets = IF ~rem.auto THEN @ ELSE @ + Len(DefaultBuckets)]]

BucketCreated(rem, view_id, json) ==
    [kind |-> "ok",
     data |-> [id |-> rem.ids.buckets + 1, view_id |-> view_id, title |-> json.title],
     rem |-> [rem EXCEPT !.buckets = Append(@, [id |-> rem.ids.buckets + 1,
                                                view_id |-> view_id,
                                                title |-> json.title]),
                         !.ids.buckets = @ + 1]]

TaskCreated(rem, project_id, json) ==
    [kind |-> "ok",
     data |-> [id |-> rem.ids.tasks + 1, project_id |-> project_id,
               title |-> json.title],
     rem |-> [rem EXCEPT !.tasks = Append(@, [id |-> rem.ids.tasks + 1,
                                              project_id |-> project_id,
                                              title |-> json.title]),
                         !.ids.tasks = @ + 1]]

\* What the server answers, and what it holds afterwards. rem.failing is
\* the set of <<method, path>> that fail.
SetupRespond(rem, method, endpoint, json) ==
    IF <<method, endpoint.path>> \in rem.failing THEN [kind |-> "fail", rem |-> rem]
    ELSE IF endpoint.path = "/projects"
    THEN IF method = "GET" THEN [kind |-> "ok", rem |-> rem, data |-> rem.projects]
         ELSE ProjectCreated(rem, json)
    ELSE IF \A i \in DOMAIN rem.projects : rem.projects[i].id # endpoint.id
    THEN [kind |-> "fail", rem |-> rem]
    ELSE CASE endpoint.path = "/projects/{id}/views" /\ method = "GET" ->
                [kind |-> "ok", rem |-> rem,
                 data |-> SelectSeq(rem.views,
                                    LAMBDA v : v.project_id = endpoint.id)]
           [] endpoint.path = "/projects/{id}/views" /\ method = "PUT" ->
                ViewCreated(rem, endpoint.id, json)
           [] endpoint.path = "/projects/{id}/views/{view}/buckets" /\ method = "GET" ->
                [kind |-> "ok", rem |-> rem,
                 data |-> SelectSeq(rem.buckets,
                                    LAMBDA b : b.view_id = endpoint.view)]
           [] endpoint.path = "/projects/{id}/views/{view}/buckets" /\ method = "PUT" ->
                BucketCreated(rem, endpoint.view, json)
           [] endpoint.path = "/projects/{id}/tasks" -> TaskCreated(rem, endpoint.id, json)
           [] endpoint.path = "/projects/{id}/views/{view}/buckets/{bucket}" ->
                [kind |-> "ok", data |-> <<>>,
                 rem |-> [rem EXCEPT !.buckets =
                             SelectSeq(@, LAMBDA b : b.id # endpoint.bucket)]]

\* _request against a server that changes: the value or the exception, what
\* was sent so far, and the server afterwards.
Answer(sent, request, response) ==
    IF response.kind = "fail"
    THEN [kind |-> "raise", error |-> Message("Vikunja API error"),
          sent |-> Append(sent, request), rem |-> response.rem]
    ELSE [kind |-> "return", value |-> response.data,
          sent |-> Append(sent, request), rem |-> response.rem]

SetupRequest(cfg, method, endpoint, json, rem, sent) ==
    IF cfg.kind = "error"
    THEN [kind |-> "raise", error |-> cfg.error, sent |-> sent, rem |-> rem]
    ELSE Answer(sent,
                [instance |-> cfg.name, url |-> cfg.url, endpoint |-> endpoint,
                 bearer |-> cfg.token, method |-> method, json |-> json],
                SetupRespond(rem, method, endpoint, json))

\* The bucket names of the template; "custom" with a non-empty list names
\* its own.
BucketNames(template, custom_buckets) ==
    IF template = "custom" /\ custom_buckets # <<>> THEN custom_buckets
    ELSE IF template \in DOMAIN KANBAN_TEMPLATES THEN KANBAN_TEMPLATES[template]
    ELSE KANBAN_TEMPLATES["gtd"]

TitledBucket(buckets, title) ==
    buckets[CHOOSE i \in DOMAIN buckets :
               /\ buckets[i].title = title
               /\ \A j \in DOMAIN buckets : buckets[j].title = title => j <= i]

HasTitle(buckets, title) == \E i \in DOMAIN buckets : buckets[i].title = title

\* The end of setup_kanban_board.
BoardResult(board, existing, created_buckets, buckets_deleted, st) ==
    [kind |-> "return", sent |-> st.sent, rem |-> st.rem,
     value |-> [project_id |-> board.project_id,
                project_created |-> board.created_project,
                view_id |-> board.view.id,
                view_title |-> board.view_title,
                view_existed |-> board.view_existed,
                buckets_created |->
                    Cardinality({i \in DOMAIN created_buckets :
                                    ~HasTitle(existing, created_buckets[i].title)}),
                buckets |-> created_buckets,
                buckets_deleted |-> buckets_deleted]]

\* The buckets that are not the template's are deleted; a failed DELETE is
\* passed over.
RECURSIVE DeleteLoop(_, _, _, _, _, _, _)
DeleteStep(board, existing, created_buckets, all_buckets, deleted, done, cfg) ==
    DeleteLoop(board, existing, created_buckets, Tail(all_buckets),
               IF done.kind = "raise" THEN deleted ELSE deleted + 1,
               done, cfg)

DeleteLoop(board, existing, created_buckets, all_buckets, deleted, st, cfg) ==
    IF all_buckets = <<>>
    THEN BoardResult(board, existing, created_buckets, deleted, st)
    ELSE IF \E i \in DOMAIN created_buckets :
               created_buckets[i].id = Head(all_buckets).id
    THEN DeleteLoop(board, existing, created_buckets, Tail(all_buckets), deleted,
                    st, cfg)
    ELSE DeleteStep(board, existing, created_buckets, all_buckets, deleted,
                    SetupRequest(cfg, "DELETE",
                                 BucketEP(board.project_id, board.view.id,
                                          Head(all_buckets).id),
                                 <<>>, st.rem, st.sent),
                    cfg)

DeleteDefaults(board, existing, created_buckets, all_buckets, cfg) ==
    IF all_buckets.kind = "raise" THEN all_buckets
    ELSE DeleteLoop(board, existing, created_buckets, all_buckets.value, 0,
                    all_buckets, cfg)

BucketsReady(board, existing, created_buckets, st, cfg) ==
    IF board.delete_default_buckets
    THEN DeleteDefaults(board, existing, created_buckets,
                        SetupRequest(cfg, "GET",
                                     BucketsEP(board.project_id, board.view.id),
                                     <<>>, st.rem, st.sent),
                        cfg)
    ELSE BoardResult(board, existing, created_buckets, 0, st)

\* The template's buckets: one that exists by its title is reused, the
\* others are created.
RECURSIVE BucketsLoop(_, _, _, _, _, _, _)
BucketsStep(board, existing, names, i, created_buckets, st, cfg) ==
    IF HasTitle(existing, names[i])
    THEN BucketsLoop(board, existing, names, i, created_buckets,
                     [kind |-> "return", value |-> TitledBucket(existing, names[i]),
                      sent |-> st.sent, rem |-> st.rem],
                     cfg)
    ELSE BucketsLoop(board, existing, names, i, created_buckets,
                     SetupRequest(cfg, "PUT",
                                  BucketsEP(board.project_id, board.view.id),
                                  [title |-> names[i], position |-> (i - 1) * 1000],
                                  st.rem, st.sent),
                     cfg)

\* bucket is bucket i, reused or just created.
BucketsLoop(board, existing, names, i, created_buckets, bucket, cfg) ==
    IF bucket.kind = "raise" THEN bucket
    ELSE IF i = Len(names)
    THEN BucketsReady(board, existing,
                      Append(created_buckets, [id |-> bucket.value.id,
                                               title |-> bucket.value.title]),
                      bucket, cfg)
    ELSE BucketsStep(board, existing, names, i + 1,
                     Append(created_buckets, [id |-> bucket.value.id,
                                              title |-> bucket.value.title]),
                     bucket, cfg)

WithExisting(board, names, existing, cfg) ==
    IF existing.kind = "raise" THEN existing
    ELSE IF names = <<>>
    THEN BucketsReady(board, existing.value, <<>>, existing, cfg)
    ELSE BucketsStep(board, existing.value, names, 1, <<>>, existing, cfg)

\* view is the kanban view of the board, reused or just created.
InView(board, names, view, view_existed, cfg) ==
    IF view.kind = "raise" THEN view
    ELSE WithExisting([board EXCEPT !.view = view.value,
                                    !.view_existed = view_existed],
                      names,
                      SetupRequest(cfg, "GET",
                                   BucketsEP(board.project_id, view.value.id),
                                   <<>>, view.rem, view.sent),
                      cfg)

TitledKanban(views, view_title) ==
    SelectSeq(views, LAMBDA v : v.view_kind = "kanban" /\ v.title = view_title)

WithViews(board, names, views, cfg) ==
    IF views.kind = "raise" THEN views
    ELSE IF TitledKanban(views.value, board.view_title) # <<>>
    THEN InView(board, names,
                [views EXCEPT !.value = TitledKanban(views.value, board.view_title)[1]],
                TRUE, cfg)
    ELSE InView(board, names,
                SetupRequest(cfg, "PUT", ViewsEP(board.project_id),
                             [title |-> board.view_title, view_kind |-> "kanban",
                              bucket_configuration_mode |-> "manual"],
                             views.rem, views.sent),
                FALSE, cfg)

InProject(board, names, st, cfg) ==
    WithViews(board, names,
              SetupRequest(cfg, "GET", ViewsEP(board.project_id), <<>>,
                           st.rem, st.sent),
              cfg)

WithProjectCreated(board, names, proj, cfg) ==
    IF proj.kind = "raise" THEN proj
    ELSE InProject([board EXCEPT !.project_id = proj.value.id,
                                 !.created_project = TRUE],
                   names, proj, cfg)

setup_kanban_board(project_id, project_title, template, custom_buckets, view_title, delete_default_buckets, cfg, rem) ==
    LET board == [project_id |-> project_id, created_project |-> FALSE,
                  view_title |-> view_title, view |-> <<>>, view_existed |-> FALSE,
                  delete_default_buckets |-> delete_default_buckets]
        names == BucketNames(template, custom_buckets)
    IN  IF project_title # "" /\ project_id = 0
        THEN WithProjectCreated(board, names,
                                SetupRequest(cfg, "PUT", ProjectsRootEP,
                                             [title |-> project_title], rem, <<>>),
                                cfg)
        ELSE InProject(board, names, [rem |-> rem, sent |-> <<>>], cfg)

----------------------------------------------------------------------------
(* Import *)

\* The tasks of one imported project are created in its new project; the
\* first failure ends the project.
RECURSIVE ImportLoop(_, _, _, _, _, _)
RECURSIVE ImportTasks(_, _, _, _, _, _, _, _)
ImportFailed(projects, existing, skip_existing, acc, st, cfg) ==
    ImportLoop(Tail(projects), existing, skip_existing,
               [acc EXCEPT !.errors =
                   Append(@, [text |-> "Failed to import project",
                              title |-> Get(Head(projects), "title", <<>>)])],
               st, cfg)

ImportTaskSent(projects, existing, skip_existing, project_id, tasks, acc, task, cfg) ==
    IF task.kind = "raise"
    THEN ImportFailed(projects, existing, skip_existing, acc, task, cfg)
    ELSE ImportTasks(projects, existing, skip_existing, project_id, Tail(tasks),
                     [acc EXCEPT !.tasks_created = @ + 1], task, cfg)

ImportTasks(projects, existing, skip_existing, project_id, tasks, acc, st, cfg) ==
    IF tasks = <<>>
    THEN ImportLoop(Tail(projects), existing, skip_existing, acc, st, cfg)
    ELSE ImportTaskSent(projects, existing, skip_existing, project_id, tasks, acc,
                        SetupRequest(cfg, "PUT", TasksEP(project_id),
                                     [title |-> Get(Head(tasks), "title", <<>>),
                                      description |->
                                          Get(Head(tasks), "description", <<>>),
                                      due_date |-> Get(Head(tasks), "due_date", NoneV),
                                      done |-> Get(Head(tasks), "done", FALSE),
                                      priority |-> Get(Head(tasks), "priority", 0)],
                                     st.rem, st.sent),
                        cfg)

ImportCreated(projects, existing, skip_existing, acc, project, cfg) ==
    IF project.kind = "raise"
    THEN ImportFailed(projects, existing, skip_existing, acc, project, cfg)
    ELSE ImportTasks(projects, existing, skip_existing, project.value.id,
                     Get(Head(projects), "tasks", <<>>),
                     [acc EXCEPT !.projects_created = @ + 1], project, cfg)

\* A project whose lower-case title is in `existing` is skipped; `existing`
\* is what the instance held when the import began.
ImportLoop(projects, existing, skip_existing, acc, st, cfg) ==
    IF projects = <<>>
    THEN [kind |-> "return", sent |-> st.sent, rem |-> st.rem, value |-> acc]
    ELSE IF skip_existing /\ Lower(Get(Head(projects), "title", <<>>)) \in existing
    THEN ImportLoop(Tail(projects), existing, skip_existing,
                    [acc EXCEPT !.skipped =
                        Append(@, Get(Head(projects), "title", <<>>))],
                    st, cfg)
    ELSE ImportCreated(projects, existing, skip_existing, acc,
                       SetupRequest(cfg, "PUT", ProjectsRootEP,
                                    [title |-> Get(Head(projects), "title", <<>>),
                                     description |->
                                         Get(Head(projects), "description", <<>>)],
                                    st.rem, st.sent),
                       cfg)

\* existing: the lower-case titles of the projects of the instance.
ImportInto(export_data, skip_existing, listed, cfg) ==
    IF listed.kind = "raise" THEN listed
    ELSE ImportLoop(Get(export_data, "projects", <<>>),
                    {Lower(Get(listed.value[i], "title", <<>>)) :
                        i \in DOMAIN listed.value},
                    skip_existing,
                    [projects_created |-> 0, tasks_created |-> 0,
                     skipped |-> <<>>, errors |-> <<>>],
                    listed, cfg)

\* export_json is no JSON (export_data.kind = "invalid"), or it is the
\* object export_data.
import_from_export(export_data, skip_existing, cfg, rem) ==
    IF export_data.kind = "invalid"
    THEN [kind |-> "return", sent |-> <<>>, rem |-> rem,
          value |-> [error |-> Message("Invalid JSON")]]
    ELSE ImportInto(export_data.object, skip_existing,
                    SetupRequest(cfg, "GET", ProjectsRootEP, <<>>, rem, <<>>), cfg)

----------------------------------------------------------------------------
(* The instance resolver as a state machine: the config file and the       *)
(* environment are whatever the user left there; each action is one call.  *)

MaxFileInst == 2
MaxEnvInst == 2

Names == {"default", "a", "b"}

\* Sequences of at most n pairwise different elements of S.
DistinctSeqs(S, n) ==
    UNION {{s \in [1..k -> S] : \A i, j \in 1..k : i # j => s[i] # s[j]} : k \in 0..n}

\* What the config file says about an instance, and what the environment does:
\* they never agree, so that the source of a resolved entry can be told.
FileEntry(name) ==
    [name |-> name,
     url |-> IF name = "a" THEN <<"f", "/">> ELSE <<"f">>,
     token |-> IF name = "b" THEN <<"$", "{", "X", "}">> ELSE <<"k">>]

EnvObject(name) ==
    [kind |-> "object",
     fields |-> [k \in {"name", "url", "token"} |->
                    CASE k = "name" -> name
                      [] k = "url" -> <<"e", "/", "/">>
                      [] k = "token" -> <<"j">>]]

\* A JSON object with no name, and a JSON string where an object belongs.
EnvNameless == [kind |-> "object", fields |-> [k \in {"url"} |-> <<"e">>]]
EnvString == [kind |-> "string"]

FileInstances == {[i \in DOMAIN s |-> FileEntry(s[i])] : s \in DistinctSeqs(Names, MaxFileInst)}

ConfigFiles ==
    {Absent, [kind |-> "file", doc |-> <<>>]}
    \cup {_save_config([instances |-> insts, current_instance |-> cur,
                         xq |-> <<>>, mcp_context |-> mcp]) :
            insts \in FileInstances,
            cur \in {NoneV, "b"},
            mcp \in {<<>>, [k \in {"instance"} |-> "a"]}}

EnvListItems == {EnvObject(n) : n \in {"a", "default", ""}} \cup {EnvNameless, EnvString}
EnvDictItems ==
    UNION {{[name |-> n, value |-> v] : v \in {EnvObject(n), EnvString}} : n \in {"a", "default"}}

EnvJsons ==
    {[kind |-> "empty"], [kind |-> "invalid"], [kind |-> "number"]}
    \cup {[kind |-> "list", items |-> s] :
            s \in UNION {[1..k -> EnvListItems] : k \in 0..MaxEnvInst}}
    \cup {[kind |-> "dict", items |-> s] :
            s \in {t \in DistinctSeqs(EnvDictItems, MaxEnvInst) :
                      \A i, j \in DOMAIN t : i # j => t[i].name # t[j].name}}

\* The environment in which VIKUNJA_INSTANCES is json (Unset: not set), and
\* VIKUNJA_URL and VIKUNJA_TOKEN are set or not.
Unset == [kind |-> "unset"]

EnvOf(json, url, token) ==
    [v \in (IF json = Unset THEN {} ELSE {"VIKUNJA_INSTANCES"})
           \cup (IF url THEN {"VIKUNJA_URL"} ELSE {})
           \cup (IF token THEN {"VIKUNJA_TOKEN"} ELSE {}) |->
        CASE v = "VIKUNJA_INSTANCES" -> json
          [] v = "VIKUNJA_URL" -> <<"d", "/">>
          [] v = "VIKUNJA_TOKEN" -> <<"t">>]

ResolverEnvs ==
    {EnvOf(json, url, token) :
        json \in EnvJsons \cup {Unset}, url \in BOOLEAN, token \in BOOLEAN}

InitResolver ==
    /\ tools = Registry
    /\ tempFiles = <<>>
    /\ threads = <<>>
    /\ configFile \in ConfigFiles
    /\ environ \in ResolverEnvs
    /\ remote = <<>>
    /\ now = 0
    /\ call = NoCall
    /\ out = NoOut
    /\ log = <<>>

\* resolve_instances()
GetInstances ==
    /\ call = NoCall
    /\ call' = [op |-> "_get_instances"]
    /\ out' = [kind |-> "return", value |-> _get_instances(configFile, environ)]
    /\ UNCHANGED <<tools, tempFiles, threads, configFile, environ, remote, now, log>>

\* resolve_current()
GetCurrentInstance ==
    /\ call = NoCall
    /\ call' = [op |-> "_get_current_instance"]
    /\ out' = [kind |-> "return", value |-> _get_current_instance(configFile, environ)]
    /\ UNCHANGED <<tools, tempFiles, threads, configFile, environ, remote, now, log>>

NextResolver == GetInstances \/ GetCurrentInstance \/ Delivered

SpecResolver == InitResolver /\ [][NextResolver]_vars

----------------------------------------------------------------------------
(* The fan-out as a state machine: instances a and b from the config file  *)
(* (b's token is the reference ${X}), "default" from VIKUNJA_URL and       *)
(* VIKUNJA_TOKEN; three servers, any of whose endpoints may fail. Each     *)
(* action is one invocation, or a change of the environment between two.   *)

MaxProjects == 2
\* The most requests that fail at a time.
MaxFailing == 2

FanEntry(name) ==
    [name |-> name,
     url |-> IF name = "a" THEN <<"a", "/">> ELSE <<"b">>,
     token |-> IF name = "b" THEN <<"$", "{", "X", "}">> ELSE <<"k">>]

FanConfigFiles ==
    {_save_config([instances |-> [i \in DOMAIN s |-> FanEntry(s[i])],
                   current_instance |-> cur, xq |-> <<>>, mcp_context |-> <<>>]) :
        s \in {<<"a", "b">>, <<"b", "a">>}, cur \in {NoneV, "b"}}

\* The values X takes; <<>> is X not set.
SecretValues == {<<"s">>, <<"r">>}

FanEnv(default, secret) ==
    [v \in (IF default THEN {"VIKUNJA_URL", "VIKUNJA_TOKEN"} ELSE {})
           \cup (IF secret # <<>> THEN {"X"} ELSE {}) |->
        CASE v = "VIKUNJA_URL" -> <<"d", "/">>
          [] v = "VIKUNJA_TOKEN" -> <<"t">>
          [] v = "X" -> secret]

FanEnvs == {FanEnv(default, secret) : default \in BOOLEAN, secret \in SecretValues \cup {<<>>}}

\* A task as the server returns it.
Task(id, title, done, due_date, priority) ==
    [id |-> id, title |-> title, done |-> done, due_date |-> due_date,
     priority |-> priority]

\* Project p of a server: an open task, a completed one, and an open one
\* without a due date.
FanProject(p) ==
    [id |-> p, title |-> IF p = 1 THEN <<"A", "b">> ELSE <<"c">>,
     tasks |-> <<Task(10 * p + 1, <<"a">>, FALSE, <<2, p, 0, 0>>, p),
                 Task(10 * p + 2, <<"B", "a">>, TRUE, <<2, 0, 0, 0>>, 5),
                 Task(10 * p + 3, <<"c">>, FALSE, NoDue, 4)>>]

\* Server a has MaxProjects projects, b and d have one.
FanServers ==
    [base \in {<<"a">>, <<"b">>, <<"d">>} |->
        [p \in 1..(IF base = <<"a">> THEN MaxProjects ELSE 1) |-> FanProject(p)]]

FanRequests ==
    {<<base, ProjectsEP>> : base \in DOMAIN FanServers}
    \cup UNION {{<<base, TasksEP(FanServers[base][p].id)>> : p \in DOMAIN FanServers[base]} :
                 base \in DOMAIN FanServers}

FanNow == 2 * TicksPerDay

InitFanOut ==
    /\ tools = Registry
    /\ tempFiles = <<>>
    /\ threads = <<>>
    /\ configFile \in FanConfigFiles
    /\ environ \in FanEnvs
    /\ remote \in {[servers |-> FanServers, failing |-> failing] :
                      failing \in {f \in SUBSET FanRequests : Cardinality(f) <= MaxFailing}}
    /\ now = FanNow
    /\ call = NoCall
    /\ out = NoOut
    /\ log = <<>>

\* os.environ["X"] is set to another value, or unset, between two invocations.
Setenv(secret) ==
    /\ call = NoCall
    /\ environ' = FanEnv("VIKUNJA_URL" \in DOMAIN environ, secret)
    /\ environ' # environ
    /\ UNCHANGED <<tools, tempFiles, threads, configFile, remote, now, call, out, log>>

\* The state after an invocation that returned `value` having sent `sent`.
Returns(invocation, value, sent) ==
    /\ call' = invocation
    /\ out' = [kind |-> "return", value |-> value]
    /\ log' = sent
    /\ UNCHANGED <<tools, tempFiles, threads, configFile, environ, remote, now>>

RequestAllInstances(endpoint, filter_instance) ==
    /\ call = NoCall
    /\ \E r \in {_request_all_instances(endpoint, filter_instance, configFile, environ, remote)} :
           Returns([op |-> "_request_all_instances", endpoint |-> endpoint,
                    instance |-> filter_instance],
                   r.results, r.log)

GetAllTasks(instance) ==
    /\ call = NoCall
    /\ \E r \in {_get_all_tasks(instance, configFile, environ, remote)} :
           Returns([op |-> "_get_all_tasks", instance |-> instance], r.all_tasks, r.log)

ListAllProjects ==
    /\ call = NoCall
    /\ \E r \in {list_all_projects(configFile, environ, remote)} :
           Returns([op |-> "list_all_projects", instance |-> ""],
                   [projects |-> r.projects, by_instance |-> r.by_instance], r.log)

ListAllTasks(filter_due, include_done, instance) ==
    /\ call = NoCall
    /\ \E r \in {list_all_tasks(filter_due, include_done, instance, now,
                              configFile, environ, remote)} :
           Returns([op |-> "list_all_tasks", filter_due |-> filter_due,
                    include_done |-> include_done, instance |-> instance],
                   [tasks |-> r.tasks, by_instance |-> r.by_instance], r.log)

SearchAll(query, instance) ==
    /\ call = NoCall
    /\ \E r \in {search_all(query, instance, configFile, environ, remote)} :
           Returns([op |-> "search_all", query |-> query, instance |-> instance],
                   [results |-> r.results, by_instance |-> r.by_instance], r.log)

CheckTokenHealth(instance) ==
    /\ call = NoCall
    /\ \E r \in {check_token_health(instance, configFile, environ, remote)} :
           Returns([op |-> "check_token_health", instance |-> instance], r.result, r.log)

\* list_projects: one request to the current instance, its exception not caught.
ListProjects ==
    /\ call = NoCall
    /\ \E r \in {_request(ProjectsEP, NoneV, configFile, environ, remote)} :
           /\ call' = [op |-> "list_projects"]
           /\ out' = IF r.kind = "raise"
                     THEN [kind |-> "raise", error |-> r.error]
                     ELSE [kind |-> "return", value |-> [result |-> r.value]]
           /\ log' = r.sent
           /\ UNCHANGED <<tools, tempFiles, threads, configFile, environ, remote, now>>

NextFanOut ==
    \/ \E secret \in SecretValues \cup {<<>>} : Setenv(secret)
    \/ \E endpoint \in {ProjectsEP, InfoEP}, instance \in {"", "a", "b", "zz"} :
          RequestAllInstances(endpoint, instance)
    \/ \E instance \in {"", "b", "zz"} : GetAllTasks(instance)
    \/ ListAllProjects
    \/ \E include_done \in BOOLEAN, instance \in {"", "a"} :
          ListAllTasks("", include_done, instance)
    \/ \E instance \in {"", "b"} : SearchAll(<<"A">>, instance)
    \/ \E instance \in {"", "a", "b"} : CheckTokenHealth(instance)
    \/ ListProjects
    \/ Delivered

SpecFanOut == InitFanOut /\ [][NextFanOut]_vars

----------------------------------------------------------------------------
(* The query machine: instances a and b, each with one project; the tasks  *)
(* of a's project are any MaxTasks tasks, b's project has an open task and *)
(* a completed one. No request fails. The query tools are invoked in any   *)
(* order against these servers.                                            *)

MaxTasks == 1
MaxLimit == 2

\* now: day 3, second 0, the last tick of the second.
QueryNow == 3 * TicksPerDay + (TicksPerSec - 1)

\* due_date strings: a date of the past, now, the last second of today at the
\* tick of now, a week from today at midnight, and a string that is no date.
Past == <<2, 0, 0, 0>>
AtNow == <<2, 3, 0, TicksPerSec - 1>>
AtTodayEnd == <<2, 3, SecsPerDay - 1, TicksPerSec - 1>>
NextWeek == <<2, 3 + WeekDays, 0, 0>>
BadDate == <<7>>

Priorities == {1, 3, 4, 5}
DueDates == {NoDue, ZeroDate, BadDate, Past, AtNow, AtTodayEnd, NextWeek}

TaskKinds == {[priority |-> p, due_date |-> d] : p \in Priorities, d \in DueDates}

\* The open task of b's project is one of these.
BKinds == {[priority |-> 1, due_date |-> NextWeek],
           [priority |-> 4, due_date |-> NextWeek],
           [priority |-> 1, due_date |-> NoDue],
           [priority |-> 5, due_date |-> AtNow]}

QueryEntry(name) == [name |-> name, url |-> <<name>>, token |-> <<"k">>]

QueryConfigFile ==
    _save_config([instances |-> <<QueryEntry("a"), QueryEntry("b")>>,
                  current_instance |-> NoneV, xq |-> <<>>, mcp_context |-> <<>>])

\* Task ids are per server: they collide between a and b.
QueryServers(akinds, bkind) ==
    [base \in {<<"a">>, <<"b">>} |->
        IF base = <<"a">>
        THEN <<[id |-> 1, title |-> <<"P">>,
                tasks |-> [i \in DOMAIN akinds |->
                              Task(i, <<"t">>, FALSE, akinds[i].due_date,
                                   akinds[i].priority)]]>>
        ELSE <<[id |-> 1, title |-> <<"Q">>,
                tasks |-> <<Task(1, <<"t">>, FALSE, bkind.due_date, bkind.priority),
                            Task(2, <<"u">>, TRUE, Past, 5)>>]>>]

InitQuery ==
    /\ tools = Registry
    /\ tempFiles = <<>>
    /\ threads = <<>>
    /\ configFile = QueryConfigFile
    /\ environ = FanEnv(FALSE, <<>>)
    /\ remote \in {[servers |-> QueryServers(akinds, bkind), failing |-> {}] :
                      akinds \in UNION {[1..n -> TaskKinds] : n \in 0..MaxTasks},
                      bkind \in BKinds}
    /\ now = QueryNow
    /\ call = NoCall
    /\ out = NoOut
    /\ log = <<>>

\* A power query tool: the open tasks are fetched, then filtered and sorted.
OverdueTasks(instance) ==
    /\ call = NoCall
    /\ \E f \in {_get_all_tasks(instance, configFile, environ, remote)} :
           Returns([op |-> "overdue_tasks", instance |-> instance],
                   overdue_tasks(f.all_tasks, now), f.log)

DueToday(instance) ==
    /\ call = NoCall
    /\ \E f \in {_get_all_tasks(instance, configFile, environ, remote)} :
           Returns([op |-> "due_today", instance |-> instance],
                   due_today(f.all_tasks, now), f.log)

DueThisWeek(instance) ==
    /\ call = NoCall
    /\ \E f \in {_get_all_tasks(instance, configFile, environ, remote)} :
           Returns([op |-> "due_this_week", instance |-> instance],
                   due_this_week(f.all_tasks, now), f.log)

HighPriorityTasks(instance) ==
    /\ call = NoCall
    /\ \E f \in {_get_all_tasks(instance, configFile, environ, remote)} :
           Returns([op |-> "high_priority_tasks", instance |-> instance],
                   high_priority_tasks(f.all_tasks), f.log)

UrgentTasks(instance) ==
    /\ call = NoCall
    /\ \E f \in {_get_all_tasks(instance, configFile, environ, remote)} :
           Returns([op |-> "urgent_tasks", instance |-> instance],
                   urgent_tasks(f.all_tasks), f.log)

FocusNow(instance, limit) ==
    /\ call = NoCall
    /\ \E f \in {_get_all_tasks(instance, configFile, environ, remote)} :
           Returns([op |-> "focus_now", instance |-> instance, limit |-> limit],
                   focus_now(f.all_tasks, limit, now), f.log)

TaskSummary(instance) ==
    /\ call = NoCall
    /\ \E f \in {_get_all_tasks(instance, configFile, environ, remote)} :
           Returns([op |-> "task_summary", instance |-> instance],
                   task_summary(f.all_tasks, now), f.log)

UnscheduledTasks(instance) ==
    /\ call = NoCall
    /\ \E f \in {_get_all_tasks(instance, configFile, environ, remote)} :
           Returns([op |-> "unscheduled_tasks", instance |-> instance],
                   unscheduled_tasks(f.all_tasks), f.log)

UpcomingDeadlines(days, instance) ==
    /\ call = NoCall
    /\ \E f \in {_get_all_tasks(instance, configFile, environ, remote)} :
           Returns([op |-> "upcoming_deadlines", instance |-> instance, days |-> days],
                   upcoming_deadlines(f.all_tasks, days, now), f.log)

NextQuery ==
    \/ OverdueTasks("")
    \/ DueToday("")
    \/ DueThisWeek("")
    \/ HighPriorityTasks("")
    \/ UrgentTasks("")
    \/ \E instance \in {"", "a"}, limit \in 0..MaxLimit : FocusNow(instance, limit)
    \/ TaskSummary("")
    \/ UnscheduledTasks("")
    \/ UpcomingDeadlines(WeekDays, "")
    \/ \E filter_due \in {"", "overdue", "today", "week"} :
          ListAllTasks(filter_due, FALSE, "")
    \/ Delivered

SpecQuery == InitQuery /\ [][NextQuery]_vars

----------------------------------------------------------------------------
(* The context machine: the tools that select an instance, and tools that  *)
(* look one up, invoked in any order. The config file starts absent,       *)
(* empty, with some keys only, or complete.                                *)

ContextFiles ==
    {Absent,
     [kind |-> "file", doc |-> <<>>],
     [kind |-> "file", doc |-> [k \in {"current_instance"} |-> Plain("b")]],
     [kind |-> "file",
      doc |-> [k \in {"instances"} |-> DumpInstances(<<FanEntry("a"), FanEntry("b")>>)]]}
    \cup {_save_config([instances |-> instances, current_instance |-> current,
                        xq |-> <<>>, mcp_context |-> context]) :
            instances \in {<<>>, <<FanEntry("a"), FanEntry("b")>>},
            current \in {NoneV, "b"},
            context \in {<<>>, [k \in {"instance"} |-> "a"]}}

InitContext ==
    /\ tools = Registry
    /\ tempFiles = <<>>
    /\ threads = <<>>
    /\ configFile \in ContextFiles
    /\ environ \in {FanEnv(default, <<"s">>) : default \in BOOLEAN}
    /\ remote = [servers |-> FanServers, failing |-> {}]
    /\ now = FanNow
    /\ call = NoCall
    /\ out = NoOut
    /\ log = <<>>

SwitchInstance(name) ==
    /\ call = NoCall
    /\ \E r \in {switch_instance(name, configFile, environ)} :
           /\ call' = [op |-> "switch_instance", instance |-> name]
           /\ out' = IF r.kind = "raise" THEN r
                     ELSE [kind |-> "return", value |-> r.value]
           /\ configFile' = IF r.kind = "raise" THEN configFile ELSE r.file
    /\ log' = <<>>
    /\ UNCHANGED <<tools, tempFiles, threads, environ, remote, now>>

SetActiveContext(instance, project_id) ==
    /\ call = NoCall
    /\ \E r \in {set_active_context(instance, project_id, configFile, environ)} :
           /\ call' = [op |-> "set_active_context", instance |-> instance,
                       project_id |-> project_id]
           /\ out' = [kind |-> "return", value |-> r.value]
           /\ configFile' = r.file
    /\ log' = <<>>
    /\ UNCHANGED <<tools, tempFiles, threads, environ, remote, now>>

\* _get_instance_config(name): an explicit name, or None for the current one.
GetInstanceConfig(name) ==
    /\ call = NoCall
    /\ \E cfg \in {_get_instance_config(name, configFile, environ)} :
           /\ call' = [op |-> "_get_instance_config", instance |-> name]
           /\ out' = IF cfg.kind = "error"
                     THEN [kind |-> "raise", error |-> cfg.error]
                     ELSE [kind |-> "return",
                           value |-> [url |-> cfg.url, token |-> cfg.token]]
    /\ log' = <<>>
    /\ UNCHANGED <<tools, tempFiles, threads, configFile, environ, remote, now>>

NextContext ==
    \/ \E name \in {"a", "b", "default", "zz"} : SwitchInstance(name)
    \/ \E instance \in {"", "a", "zz"}, project_id \in {0, 7} :
          SetActiveContext(instance, project_id)
    \/ \E name \in {NoneV, "a", "zz"} : GetInstanceConfig(name)
    \/ GetCurrentInstance
    \/ ListProjects
    \/ OverdueTasks("zz")
    \/ ListAllTasks("", FALSE, "zz")
    \/ CheckTokenHealth("zz")
    \/ Delivered

SpecContext == InitContext /\ [][NextContext]_vars

----------------------------------------------------------------------------
(* Round-trip machine: the config file is loaded and the loaded structure is
   saved back unchanged, over hand-written documents. *)

MaxRounds == 2

DocEntry(key) == [key |-> key, url |-> <<"f">>, token |-> <<"k">>]

DocInstances ==
    {<<>>, <<DocEntry(Plain("a"))>>, <<DocEntry(Quoted("null")), DocEntry(Plain("b"))>>}

DocCurrent ==
    {Plain("null"), Plain("~"), Plain(""), Quoted(""), Quoted("~"), Plain("b")}

DocContext ==
    {<<>>,
     [k \in {"instance"} |-> Plain("a")],
     [k \in {"project_id"} |-> [int |-> 7]],
     [k \in {"instance", "project_id"} |->
         IF k = "instance" THEN Plain("null") ELSE [int |-> 7]]}

Document(keys, instances, current, context) ==
    [k \in keys |->
        CASE k = "instances" -> instances
          [] k = "current_instance" -> current
          [] k = "mcp_context" -> context
          [] OTHER -> <<>>]

\* Absent, empty, missing some top-level keys, fully populated.
RoundTripFiles ==
    {Absent}
    \cup {[kind |-> "file", doc |-> Document(keys, instances, current, context)] :
            keys \in SUBSET {"instances", "current_instance", "xq", "mcp_context"},
            instances \in DocInstances, current \in DocCurrent,
            context \in DocContext}

InitRoundTrip ==
    /\ tools = Registry
    /\ tempFiles = <<>>
    /\ threads = <<>>
    /\ configFile \in RoundTripFiles
    /\ environ = FanEnv(FALSE, <<"s">>)
    /\ remote = [servers |-> FanServers, failing |-> {}]
    /\ now = FanNow
    /\ call = NoCall
    /\ out = NoOut
    /\ log = <<>>

\* config = _load_config(); log keeps the structures loaded so far.
LoadConfig ==
    /\ Len(log) < MaxRounds
    /\ call' = [op |-> "_load_config",
                saves |-> IF call = NoCall THEN 0 ELSE call.saves]
    /\ out' = [kind |-> "return", value |-> _load_config(configFile)]
    /\ log' = Append(log, _load_config(configFile))
    /\ UNCHANGED <<tools, tempFiles, threads, configFile, environ, remote, now>>

\* _save_config(config) of the structure last loaded; before is the file it
\* replaces, saves the number of saves so far.
SaveConfig ==
    /\ call.op \in {"_load_config", "_save_config"}
    /\ call.saves <= MaxRounds
    /\ call' = [op |-> "_save_config", before |-> configFile,
                saves |-> call.saves + 1]
    /\ configFile' = _save_config(out.value)
    /\ UNCHANGED <<tools, tempFiles, threads, environ, remote, now, out, log>>

NextRoundTrip == LoadConfig \/ SaveConfig

SpecRoundTrip == InitRoundTrip /\ [][NextRoundTrip]_vars

----------------------------------------------------------------------------
(* Config store machine: invocations of switch_instance and                *)
(* set_active_context run concurrently, one statement that touches the     *)
(* file system at a time. A thread's pc names the statement it runs next.  *)

MaxWriters == 2

Writers == 1..MaxWriters

\* The order in which yaml.dump writes the top-level keys.
KeyOrder == <<"instances", "current_instance", "xq", "mcp_context">>

\* What the file holds when the write stops after n top-level keys.
Truncated(doc, n) ==
    [k \in {KeyOrder[i] : i \in 1..n} \cap DOMAIN doc |-> doc[k]]

\* A write into CONFIG_FILE itself.
WrittenInPlace(file, temps, t, content) ==
    [file |-> [kind |-> "file", doc |-> content], temps |-> temps]

\* f.write into the temp file of writer t.
Written(file, temps, t, content) ==
    [file |-> file, temps |-> [temps EXCEPT ![t] = content]]

\* A replace that keeps the mcp_context keys of the file it replaces.
Merged(file, content) ==
    [kind |-> "file",
     doc |-> IF file.kind = "file" /\ "mcp_context" \in DOMAIN file.doc
             THEN [content EXCEPT !["mcp_context"] =
                      [k \in DOMAIN @ \cup DOMAIN file.doc["mcp_context"] |->
                          IF k \in DOMAIN @ THEN @[k] ELSE file.doc["mcp_context"][k]]]
             ELSE content]

\* os.replace(temp_path, CONFIG_FILE)
Replaced(file, content) == [kind |-> "file", doc |-> content]

\* os.unlink(temp_path), and the rename that takes the temp file away.
Unlinked(temps, t) == [w \in DOMAIN temps \ {t} |-> temps[w]]

StoreFiles ==
    {Absent,
     _save_config([instances |-> <<FanEntry("a"), FanEntry("b")>>,
                   current_instance |-> NoneV, xq |-> <<>>, mcp_context |-> <<>>]),
     _save_config([instances |-> <<FanEntry("a"), FanEntry("b")>>,
                   current_instance |-> "a", xq |-> <<>>,
                   mcp_context |-> [k \in {"instance", "project_id"} |->
                                       IF k = "instance" THEN "a" ELSE 3]])}

SwitchCall(name) ==
    [op |-> "switch_instance", instance |-> name, project_id |-> 0]

ContextCall(instance, project_id) ==
    [op |-> "set_active_context", instance |-> instance, project_id |-> project_id]

StoreCalls ==
    {SwitchCall("b"), SwitchCall("zz"),
     ContextCall("a", 7), ContextCall("", 0), ContextCall("zz", 7)}

\* A thread entering the tool: switch_instance starts by resolving the
\* instances (line 184), set_active_context by loading the config (line 335).
Entering(c) ==
    [call |-> c,
     pc |-> IF c.op = "switch_instance" THEN "instances" ELSE "load",
     reads |-> <<>>, config |-> NoneV, renamed |-> FALSE, out |-> NoOut]

InitStore ==
    /\ configFile \in StoreFiles
    /\ environ = FanEnv(FALSE, <<"s">>)
    /\ remote = [servers |-> FanServers, failing |-> {}]
    /\ now = FanNow
    /\ call = NoCall
    /\ out = NoOut
    /\ log = <<>>
    /\ tools = Registry
    /\ tempFiles = <<>>
    /\ threads \in [Writers -> {Entering(c) : c \in StoreCalls}]

At(t, pc) == threads[t].pc = pc

\* The thread goes on to pc with some of its locals changed.
Goes(t, pc, changed) ==
    threads' = [threads EXCEPT ![t] =
                   [k \in DOMAIN @ |->
                       IF k = "pc" THEN pc
                       ELSE IF k \in DOMAIN changed THEN changed[k] ELSE @[k]]]

Reading(t) == Append(threads[t].reads, configFile)

\* set_active_context: config["mcp_context"] with the instance and the
\* project set or cleared (lines 337-350).
ContextOf(c, config) ==
    Tag(config, "mcp_context",
        WithProject(WithInstance(config["mcp_context"], c.instance), c.project_id))

\* instances = _get_instances() and the test of the name: line 184 of
\* _set_current_instance, line 338 of set_active_context.
Validated(t, c, instances) ==
    IF Has(instances, c.instance)
    THEN IF c.op = "switch_instance"
         THEN Goes(t, "load", [reads |-> Reading(t)])
         ELSE Goes(t, "mkstemp", [reads |-> Reading(t),
                                  config |-> ContextOf(c, threads[t].config)])
    ELSE Goes(t, "done",
              [reads |-> Reading(t),
               out |-> IF c.op = "switch_instance"
                       THEN [kind |-> "raise",
                             error |-> MessageNaming("not found", NamesOf(instances))]
                       ELSE [kind |-> "return",
                             value |-> [error |-> Message("not found")]]])

ResolveInstances(t) ==
    /\ At(t, "instances")
    /\ Validated(t, threads[t].call, _get_instances(configFile, environ))
    /\ UNCHANGED <<tools, tempFiles, configFile, environ, remote, now, call, out, log>>

\* config = _load_config(): line 189 of _set_current_instance, line 335 of
\* set_active_context.
Loaded(t, c, config) ==
    IF c.op = "switch_instance"
    THEN Goes(t, "mkstemp", [reads |-> Reading(t),
                             config |-> SetCurrent(config, c.instance)])
    ELSE IF c.instance # ""
    THEN Goes(t, "instances", [reads |-> Reading(t), config |-> config])
    ELSE Goes(t, "mkstemp", [reads |-> Reading(t), config |-> ContextOf(c, config)])

LoadConfigFile(t) ==
    /\ At(t, "load")
    /\ Loaded(t, threads[t].call, _load_config(configFile))
    /\ UNCHANGED <<tools, tempFiles, configFile, environ, remote, now, call, out, log>>

SaveFailed == [kind |-> "raise", error |-> Message("OSError")]

\* _save_config: tempfile.mkstemp creates an empty temp file, or fails.
Mkstemp(t) ==
    /\ At(t, "mkstemp")
    /\ tempFiles' = [w \in DOMAIN tempFiles \cup {t} |->
                        IF w = t THEN <<>> ELSE tempFiles[w]]
    /\ Goes(t, "write", <<>>)
    /\ UNCHANGED <<tools, configFile, environ, remote, now, call, out, log>>

MkstempFails(t) ==
    /\ At(t, "mkstemp")
    /\ Goes(t, "done", [out |-> SaveFailed])
    /\ UNCHANGED <<tools, tempFiles, configFile, environ, remote, now, call, out, log>>

\* yaml.dump(config, f) writes the whole document ...
WriteAll(t) ==
    /\ At(t, "write")
    /\ \E w \in {Written(configFile, tempFiles, t, dump(threads[t].config))} :
           /\ configFile' = w.file
           /\ tempFiles' = w.temps
    /\ Goes(t, "replace", <<>>)
    /\ UNCHANGED <<tools, environ, remote, now, call, out, log>>

\* ... or raises after a part of it.
WriteFails(t) ==
    /\ At(t, "write")
    /\ \E n \in 0..(Len(KeyOrder) - 1) :
         \E w \in {Written(configFile, tempFiles, t,
                           Truncated(dump(threads[t].config), n))} :
           /\ configFile' = w.file
           /\ tempFiles' = w.temps
    /\ Goes(t, "unlink", <<>>)
    /\ UNCHANGED <<tools, environ, remote, now, call, out, log>>

\* os.replace(temp_path, CONFIG_FILE); log keeps the order of the renames.
Replace(t) ==
    /\ At(t, "replace")
    /\ configFile' = Replaced(configFile, tempFiles[t])
    /\ tempFiles' = Unlinked(tempFiles, t)
    /\ log' = Append(log, t)
    /\ Goes(t, "result", [renamed |-> TRUE])
    /\ UNCHANGED <<tools, environ, remote, now, call, out>>

ReplaceFails(t) ==
    /\ At(t, "replace")
    /\ Goes(t, "unlink", <<>>)
    /\ UNCHANGED <<tools, tempFiles, configFile, environ, remote, now, call, out, log>>

\* except Exception: os.unlink(temp_path); raise
Unlink(t) ==
    /\ At(t, "unlink")
    /\ tempFiles' = Unlinked(tempFiles, t)
    /\ Goes(t, "done", [out |-> SaveFailed])
    /\ UNCHANGED <<tools, configFile, environ, remote, now, call, out, log>>

\* The result: instances[name]["url"] of a new _get_instances() (lines
\* 313-317), the context with a new _get_instances() (lines 354-358).
Result(c, config, instances) ==
    IF c.op = "set_active_context"
    THEN [kind |-> "return",
          value |-> [instance |-> Get(config["mcp_context"], "instance", NoneV),
                     project_id |-> Get(config["mcp_context"], "project_id", NoneV),
                     available_instances |-> NamesOf(instances)]]
    ELSE IF Has(instances, c.instance)
    THEN [kind |-> "return",
          value |-> [switched_to |-> c.instance,
                     url |-> Lookup(instances, c.instance).url]]
    ELSE [kind |-> "raise", error |-> Message("KeyError")]

Return(t) ==
    /\ At(t, "result")
    /\ Goes(t, "done",
            [reads |-> Reading(t),
             out |-> Result(threads[t].call, threads[t].config,
                            _get_instances(configFile, environ))])
    /\ UNCHANGED <<tools, tempFiles, configFile, environ, remote, now, call, out, log>>

NextStore ==
    \E t \in Writers :
        \/ ResolveInstances(t)
        \/ LoadConfigFile(t)
        \/ Mkstemp(t)
        \/ MkstempFails(t)
        \/ WriteAll(t)
        \/ WriteFails(t)
        \/ Replace(t)
        \/ ReplaceFails(t)
        \/ Unlink(t)
        \/ Return(t)

SpecStore == InitStore /\ [][NextStore]_vars

----------------------------------------------------------------------------
(* The kanban machine: one instance, a, whose server has project 1 with     *)
(* three tasks, a list view and maybe a kanban view, and the buckets Review *)
(* and maybe Filed; up to MaxFailing of its requests fail. The tools that   *)
(* move tasks into buckets are invoked in any order.                        *)

KanbanProject == 1
KanbanView == 6

Labelled(id, title, done, labels) ==
    [id |-> id, title |-> title, done |-> done,
     labels |-> [i \in DOMAIN labels |-> [title |-> labels[i]]]]

KanbanTasks ==
    <<Tag(Labelled(11, <<"t">>, FALSE, <<<<"B", "a">>, <<"c">>>>),
          "description", <<"d">>),
      Labelled(12, <<"u">>, TRUE, <<<<"a">>>>),
      Labelled(13, <<"v">>, FALSE, <<<<"a">>>>)>>

KanbanServers ==
    {[tasks |-> KanbanTasks, views |-> views, buckets |-> buckets] :
        views \in {<<[id |-> 5, view_kind |-> "list"],
                     [id |-> KanbanView, view_kind |-> "kanban"]>>,
                   <<[id |-> 5, view_kind |-> "list"]>>},
        buckets \in {<<[id |-> 1, title |-> "Review"], [id |-> 2, title |-> "Filed"]>>,
                     <<[id |-> 1, title |-> "Review"]>>}}

KanbanRequests ==
    {<<"POST", BucketTasksEP(KanbanProject, KanbanView, b)>> : b \in {1, 2}}
    \cup {<<"POST", PositionEP(t)>> : t \in {11, 13, 31}}
    \cup {<<"GET", TasksEP(KanbanProject)>>, <<"PUT", TasksEP(KanbanProject)>>,
          <<"GET", ViewsEP(KanbanProject)>>,
          <<"GET", BucketsEP(KanbanProject, KanbanView)>>,
          <<"GET", TaskEP(11)>>, <<"POST", TaskEP(11)>>, <<"GET", LabelsEP>>}

KanbanConfigFiles ==
    {Absent}
    \cup {_save_config([instances |-> <<QueryEntry("a")>>, current_instance |-> NoneV,
                        xq |-> xq, mcp_context |-> <<>>]) :
            xq \in {<<>>, [i \in {"a"} |-> KanbanProject]}}

InitKanban ==
    /\ tools = Registry
    /\ tempFiles = <<>>
    /\ threads = <<>>
    /\ configFile \in KanbanConfigFiles
    /\ environ = FanEnv(FALSE, <<"s">>)
    /\ remote \in {[server |-> server, failing |-> failing] :
                      server \in KanbanServers,
                      failing \in {f \in SUBSET KanbanRequests :
                                      Cardinality(f) <= MaxFailing}}
    /\ now = FanNow
    /\ call = NoCall
    /\ out = NoOut
    /\ log = <<>>

\* The invocation ends: it raised, or it returned a value.
Ends(invocation, r) ==
    /\ call' = invocation
    /\ out' = IF r.kind = "raise" THEN [kind |-> "raise", error |-> r.error]
              ELSE [kind |-> "return", value |-> r.value]
    /\ log' = r.sent
    /\ UNCHANGED <<tools, tempFiles, threads, configFile, environ, remote, now>>

SetTaskPosition(task_id, bucket_id) ==
    /\ call = NoCall
    /\ \E r \in {set_task_position(task_id, KanbanProject, KanbanView, bucket_id,
                                   _get_instance_config(NoneV, configFile, environ),
                                   remote)} :
           Ends([op |-> "set_task_position", task_id |-> task_id,
                 view_id |-> KanbanView, bucket_id |-> bucket_id], r)

BulkSetTaskPositions(assignments) ==
    /\ call = NoCall
    /\ \E acc \in {bulk_set_task_positions(KanbanProject, KanbanView, assignments,
                                           _get_instance_config(NoneV, configFile, environ),
                                           remote)} :
           Ends([op |-> "bulk_set_task_positions", view_id |-> KanbanView,
                 assignments |-> assignments],
                [kind |-> "return", value |-> acc.result, sent |-> acc.sent])

MoveTasksByLabel(label_filter, bucket_id) ==
    /\ call = NoCall
    /\ \E r \in {move_tasks_by_label(KanbanProject, label_filter, KanbanView, bucket_id,
                                     _get_instance_config(NoneV, configFile, environ),
                                     remote)} :
           Ends([op |-> "move_tasks_by_label", label_filter |-> label_filter,
                 view_id |-> KanbanView, bucket_id |-> bucket_id], r)

MoveTasksByLabelToBuckets(label_to_bucket_map) ==
    /\ call = NoCall
    /\ \E r \in {move_tasks_by_label_to_buckets(
                     KanbanProject, KanbanView, label_to_bucket_map,
                     _get_instance_config(NoneV, configFile, environ), remote)} :
           Ends([op |-> "move_tasks_by_label_to_buckets", view_id |-> KanbanView,
                 label_to_bucket_map |-> label_to_bucket_map], r)

ClaimXqTask(instance, task_id) ==
    /\ call = NoCall
    /\ \E r \in {claim_xq_task(instance, task_id, configFile, environ, remote)} :
           Ends([op |-> "claim_xq_task", instance |-> instance, task_id |-> task_id], r)

CompleteXqTask(instance, task_id, destination, notes) ==
    /\ call = NoCall
    /\ \E r \in {complete_xq_task(instance, task_id, destination, notes, now,
                                  configFile, environ, remote)} :
           Ends([op |-> "complete_xq_task", instance |-> instance,
                 task_id |-> task_id, destination |-> destination,
                 notes |-> notes], r)

BatchCreateTasks(tasks) ==
    /\ call = NoCall
    /\ \E r \in {batch_create_tasks(KanbanProject, tasks,
                                    _get_instance_config(NoneV, configFile, environ),
                                    remote)} :
           Ends([op |-> "batch_create_tasks", tasks |-> tasks], r)

BatchUpdateTasks(updates) ==
    /\ call = NoCall
    /\ \E acc \in {batch_update_tasks(updates,
                                      _get_instance_config(NoneV, configFile, environ),
                                      remote)} :
           Ends([op |-> "batch_update_tasks", updates |-> updates],
                [kind |-> "return", value |-> acc.result, sent |-> acc.sent])

BatchSetPositions(positions) ==
    /\ call = NoCall
    /\ \E acc \in {batch_set_positions(KanbanView, positions,
                                       _get_instance_config(NoneV, configFile, environ),
                                       remote)} :
           Ends([op |-> "batch_set_positions", view_id |-> KanbanView,
                 positions |-> positions],
                [kind |-> "return", value |-> acc.result, sent |-> acc.sent])

Assignment(task_id, bucket_id) == [task_id |-> task_id, bucket_id |-> bucket_id]

Assignments ==
    {<<Assignment(11, 1)>>,
     <<Assignment(11, 1), Assignment(13, 2)>>,
     <<[task_id |-> 11], Assignment(13, 1)>>,
     <<Assignment(0, 1), Assignment(11, 2)>>}

LabelMaps ==
    {<<[name |-> <<"B", "a">>, bucket |-> 1], [name |-> <<"A">>, bucket |-> 2]>>,
     <<[name |-> <<"c">>, bucket |-> 2]>>}

NewTasks ==
    {<<[title |-> <<"n">>, bucket |-> "Review"]>>,
     <<[title |-> <<"n">>, bucket |-> "Review"], [title |-> <<"m">>]>>,
     <<[title |-> <<"n">>, bucket |-> "Nope"], [title |-> <<"m">>, bucket |-> "Filed"]>>,
     <<[title |-> <<"m">>]>>}

NextKanban ==
    \/ \E task_id \in {11, 13}, bucket_id \in {1, 2} : SetTaskPosition(task_id, bucket_id)
    \/ \E assignments \in Assignments : BulkSetTaskPositions(assignments)
    \/ \E label_filter \in {<<"a">>, <<"C">>}, bucket_id \in {1, 2} :
          MoveTasksByLabel(label_filter, bucket_id)
    \/ \E map \in LabelMaps : MoveTasksByLabelToBuckets(map)
    \/ \E instance \in {"a", "zz"}, task_id \in {11, 99} : ClaimXqTask(instance, task_id)
    \/ \E instance \in {"a", "zz"}, task_id \in {11, 13, 99}, notes \in {"", "n"} :
          CompleteXqTask(instance, task_id, "inbox", notes)
    \/ \E tasks \in NewTasks : BatchCreateTasks(tasks)
    \/ Delivered

SpecKanban == InitKanban /\ [][NextKanban]_vars

----------------------------------------------------------------------------
(* The batch machine: the tools that work through a list of entries, on the
   servers of the kanban machine, with up to MaxFailing failing requests. *)

MaxEntries == 2

UpdateEntries ==
    {[task_id |-> 11, title |-> <<"x">>],
     [task_id |-> 13, priority |-> 3, reminders |-> <<8>>],
     [task_id |-> 99, title |-> <<"x">>],
     [task_id |-> 0, title |-> <<"x">>],
     [title |-> <<"y">>]}

PositionEntries ==
    {[task_id |-> 11, position |-> 0],
     [task_id |-> 13, position |-> 5],
     [task_id |-> 11],
     [position |-> 3]}

AssignmentEntries ==
    {Assignment(11, 1), Assignment(13, 2), Assignment(0, 1), [task_id |-> 11]}

\* The requests of these tools that may fail.
BatchRequests ==
    {<<"POST", BucketTasksEP(KanbanProject, KanbanView, b)>> : b \in {1, 2}}
    \cup {<<"POST", PositionEP(t)>> : t \in {11, 13}}
    \cup {<<"GET", TaskEP(11)>>, <<"POST", TaskEP(11)>>}

InitBatch ==
    /\ tools = Registry
    /\ tempFiles = <<>>
    /\ threads = <<>>
    /\ configFile \in KanbanConfigFiles
    /\ environ = FanEnv(FALSE, <<"s">>)
    /\ remote \in {[server |-> server, failing |-> failing] :
                      server \in KanbanServers,
                      failing \in {f \in SUBSET BatchRequests :
                                      Cardinality(f) <= MaxFailing}}
    /\ now = FanNow
    /\ call = NoCall
    /\ out = NoOut
    /\ log = <<>>

\* The lists of one to MaxEntries entries.
ListsOf(entries) == UNION {[1..k -> entries] : k \in 1..MaxEntries}

NextBatch ==
    \/ \E updates \in ListsOf(UpdateEntries) : BatchUpdateTasks(updates)
    \/ \E positions \in ListsOf(PositionEntries) : BatchSetPositions(positions)
    \/ \E assignments \in ListsOf(AssignmentEntries) : BulkSetTaskPositions(assignments)
    \/ Delivered

SpecBatch == InitBatch /\ [][NextBatch]_vars

----------------------------------------------------------------------------
(* Instance resolver: properties *)

\* The `instances` mapping as written in the config file, and whether an
\* environment source defines `name`.
FileInstancesOf(file) ==
    IF file.kind = "absent" \/ "instances" \notin DOMAIN file.doc THEN <<>>
    ELSE LoadInstances(file.doc["instances"])

EnvJsonDefines(env, name) ==
    /\ "VIKUNJA_INSTANCES" \in DOMAIN env
    /\ LET json == env["VIKUNJA_INSTANCES"] IN
        \/ /\ json.kind = "list"
           /\ \E i \in DOMAIN json.items :
                 /\ json.items[i].kind = "object"
                 /\ Get(json.items[i].fields, "name", "") = name
        \/ /\ json.kind = "dict"
           /\ \E i \in DOMAIN json.items : json.items[i].name = name

EnvDefines(env, name) ==
    \/ EnvJsonDefines(env, name)
    \/ name = "default" /\ {"VIKUNJA_URL", "VIKUNJA_TOKEN"} \subseteq DOMAIN env

\* C1: every instance the config file defines is resolved to exactly the
\* config file's entry (url and token), whatever the environment says about
\* that name; the environment only adds names the config file does not define.
C1_ConfigFileWins ==
    call.op = "_get_instances" =>
        LET file == FileInstancesOf(configFile)
            instances == out.value
        IN  /\ Len(instances) >= Len(file)
            /\ \A i \in 1..Len(file) : instances[i] = file[i]
            /\ \A i \in 1..Len(instances) :
                  i > Len(file) => instances[i].name \notin Keys(file)

\* C1's case: the object form and the config file define the same name, and so
\* do VIKUNJA_URL / VIKUNJA_TOKEN and the config file.
C1_Witness ==
    /\ call.op = "_get_instances"
    /\ \E name \in Keys(FileInstancesOf(configFile)) :
          /\ EnvJsonDefines(environ, name)
          /\ environ["VIKUNJA_INSTANCES"].kind = "dict"
          /\ environ["VIKUNJA_INSTANCES"].items[1].value.kind = "object"
    /\ Has(FileInstancesOf(configFile), "default")
    /\ EnvDefines(environ, "default")

\* The first value of a sequence of Optional[str] that is there, else None.
RECURSIVE FirstThere(_)
FirstThere(candidates) ==
    IF candidates = <<>> THEN NoneV
    ELSE IF Truthy(Head(candidates)) THEN Head(candidates)
    ELSE FirstThere(Tail(candidates))

McpInstanceOf(file) ==
    IF file.kind = "absent" \/ "mcp_context" \notin DOMAIN file.doc THEN NoneV
    ELSE IF "instance" \notin DOMAIN file.doc["mcp_context"] THEN NoneV
    ELSE LoadStr(file.doc["mcp_context"]["instance"])

CurrentInstanceOf(file) ==
    IF file.kind = "absent" \/ "current_instance" \notin DOMAIN file.doc THEN NoneV
    ELSE LoadStr(file.doc["current_instance"])

\* C2: resolve_current is the first available of mcp_context.instance, the
\* persisted current_instance, "default" when it is resolved, and the first
\* resolved instance; none with no config and no environment, "default" with
\* only VIKUNJA_URL and VIKUNJA_TOKEN.
C2_ResolveCurrent ==
    call.op = "_get_current_instance" =>
        LET resolved == _get_instances(configFile, environ) IN
        /\ out.value =
              FirstThere(<<McpInstanceOf(configFile),
                           CurrentInstanceOf(configFile),
                           IF "default" \in Keys(resolved) THEN "default" ELSE NoneV,
                           IF resolved # <<>> THEN resolved[1].name ELSE NoneV>>)
        /\ (configFile = Absent /\ DOMAIN environ = {}) => out.value = NoneV
        /\ (configFile = Absent /\ DOMAIN environ = {"VIKUNJA_URL", "VIKUNJA_TOKEN"})
              => out.value = "default"

\* C2's case: nothing is selected and "default" is resolved, but not first.
C2_Witness ==
    /\ call.op = "_get_current_instance"
    /\ ~Truthy(McpInstanceOf(configFile))
    /\ ~Truthy(CurrentInstanceOf(configFile))
    /\ LET resolved == _get_instances(configFile, environ) IN
        /\ Len(resolved) >= 2
        /\ resolved[1].name # "default"
        /\ "default" \in Keys(resolved)
    /\ out.value = "default"

----------------------------------------------------------------------------
(* Fan-out properties *)

\* The instances the invocation in `call` goes through, in order.
Selected == SelectInstances(_get_instances(configFile, environ), call.instance)

PositionIn(instances, name) ==
    CHOOSE i \in DOMAIN instances : instances[i].name = name

\* A record without its field `key`.
Untagged(x, key) == [k \in DOMAIN x \ {key} |-> x[k]]

\* What the requests of _request_all_instances to the instances give.
Answers ==
    [i \in DOMAIN Selected |->
        _request(call.endpoint, Selected[i].name, configFile, environ, remote)]

\* C3: _request_all_instances does not raise; every record it returns carries
\* in `_instance` the name of a selected instance, the records are in the
\* order of the instances, an instance whose request fails has no record and
\* an instance whose request succeeds has exactly the records of its answer.
C3_FanOutPartialFailure ==
    call.op = "_request_all_instances" =>
        LET selected == Selected
            answers == Answers
            results == out.value
        IN  /\ out.kind = "return"
            /\ \A k \in DOMAIN results :
                  \E i \in DOMAIN selected : results[k]._instance = selected[i].name
            /\ \A k, l \in DOMAIN results :
                  k < l => PositionIn(selected, results[k]._instance)
                              <= PositionIn(selected, results[l]._instance)
            /\ \A i \in DOMAIN selected :
                  LET got == SelectSeq(results,
                                       LAMBDA x : x._instance = selected[i].name)
                  IN  IF answers[i].kind = "raise" THEN got = <<>>
                      ELSE [k \in DOMAIN got |-> Untagged(got[k], "_instance")]
                              = (IF answers[i].list THEN answers[i].value
                                 ELSE <<answers[i].value>>)

\* C3's case: three instances, the request to one of them fails, and the
\* records of the two others are returned.
C3_Witness ==
    /\ call.op = "_request_all_instances"
    /\ Len(Selected) = 3
    /\ Cardinality({i \in DOMAIN Selected : Answers[i].kind = "raise"}) = 1
    /\ Cardinality({out.value[k]._instance : k \in DOMAIN out.value}) = 2

CrossInstanceTools == {"_get_all_tasks", "list_all_projects", "list_all_tasks", "search_all"}

\* The records in the value a cross-instance tool returns, and the instance a
\* record says it comes from.
RowsOf(op, value) ==
    CASE op = "_get_all_tasks" -> value
      [] op = "list_all_projects" -> value.projects
      [] op = "list_all_tasks" -> value.tasks
      [] op = "search_all" -> value.results

OriginOf(op, x) == IF op = "_get_all_tasks" THEN x._instance ELSE x.instance

\* The records the invocation in `call` returns when the servers are `rem`.
RowsWith(rem) ==
    CASE call.op = "_get_all_tasks" ->
            _get_all_tasks(call.instance, configFile, environ, rem).all_tasks
      [] call.op = "list_all_projects" ->
            list_all_projects(configFile, environ, rem).projects
      [] call.op = "list_all_tasks" ->
            list_all_tasks(call.filter_due, call.include_done, call.instance, now,
                           configFile, environ, rem).tasks
      [] call.op = "search_all" ->
            search_all(call.query, call.instance, configFile, environ, rem).results

\* Every request to instance `name` succeeds: its credentials resolve and
\* its server fails no request.
AllSucceeded(name) ==
    LET cfg == _get_instance_config(name, configFile, environ) IN
    /\ cfg.kind = "ok"
    /\ \A f \in remote.failing : f[1] # cfg.url

SomeFailed(name) ==
    \E i \in DOMAIN log :
        /\ log[i].instance = name
        /\ Respond(remote, log[i].url, log[i].endpoint).kind = "fail"

C5_FailureIsTerminal ==
    call.op \in CrossInstanceTools \cup {"_request_all_instances"} =>
        \A i, j \in DOMAIN log :
            (i < j /\ log[i].instance = log[j].instance) =>
                Respond(remote, log[i].url, log[i].endpoint).kind = "ok"

\* C10: a request to an instance whose stored token is ${NAME} is sent only
\* when NAME is set, and carries the value NAME has in the environment.
C10_TokenIndirection ==
    \A i \in DOMAIN log :
        LET instances == _get_instances(configFile, environ) IN
        (Has(instances, log[i].instance)
           /\ IsEnvReference(Lookup(instances, log[i].instance).token)) =>
            LET stored == Lookup(instances, log[i].instance).token
                NAME == Join(SubSeq(stored, 3, Len(stored) - 1))
            IN  /\ NAME \in DOMAIN environ
                /\ log[i].bearer = environ[NAME]

----------------------------------------------------------------------------
(* Query properties *)

PowerQueries ==
    {"overdue_tasks", "due_today", "due_this_week", "high_priority_tasks",
     "urgent_tasks", "focus_now", "task_summary", "unscheduled_tasks",
     "upcoming_deadlines"}

\* The snapshot the power query in `call` fetched.
Snapshot == _get_all_tasks(call.instance, configFile, environ, remote).all_tasks

\* The tasks with the zero value of due_date replaced by no due_date, in a
\* snapshot and on the servers.
WithoutSentinel(tasks) ==
    [i \in DOMAIN tasks |->
        IF tasks[i].due_date = ZeroDate THEN [tasks[i] EXCEPT !.due_date = NoDue]
        ELSE tasks[i]]

RemoteWithoutSentinel ==
    [remote EXCEPT !.servers =
        [base \in DOMAIN @ |->
            [p \in DOMAIN @[base] |->
                [@[base][p] EXCEPT !.tasks = WithoutSentinel(@)]]]]

\* What the power query in `call` returns on the snapshot `tasks`.
QueryOn(tasks) ==
    CASE call.op = "overdue_tasks" -> overdue_tasks(tasks, now)
      [] call.op = "due_today" -> due_today(tasks, now)
      [] call.op = "due_this_week" -> due_this_week(tasks, now)
      [] call.op = "high_priority_tasks" -> high_priority_tasks(tasks)
      [] call.op = "urgent_tasks" -> urgent_tasks(tasks)
      [] call.op = "focus_now" -> focus_now(tasks, call.limit, now)
      [] call.op = "task_summary" -> task_summary(tasks, now)
      [] call.op = "unscheduled_tasks" -> unscheduled_tasks(tasks)
      [] call.op = "upcoming_deadlines" -> upcoming_deadlines(tasks, call.days, now)

\* The tasks of a result, in its order: ids are per instance.
Identities(rows) == [i \in DOMAIN rows |-> <<rows[i].instance, rows[i].id>>]

\* C6: what a query tool returns (the tasks, their order, the counts) is what
\* it returns once every zero-value due_date fetched is replaced by no
\* due_date.
C6_SentinelIsNoDueDate ==
    /\ call.op \in PowerQueries =>
          LET other == QueryOn(WithoutSentinel(Snapshot)) IN
          IF call.op = "task_summary" THEN out.value = other
          ELSE /\ Identities(out.value.tasks) = Identities(other.tasks)
               /\ out.value.count = other.count
               /\ call.op = "focus_now" =>
                     out.value.total_matching = other.total_matching
    /\ call.op = "list_all_tasks" =>
          LET other == list_all_tasks(call.filter_due, call.include_done,
                                      call.instance, now, configFile, environ,
                                      RemoteWithoutSentinel)
          IN  /\ Identities(out.value.tasks) = Identities(other.tasks)
              /\ out.value.by_instance = other.by_instance

\* A task is overdue: it has a due date (the zero value is none) that is an
\* instant before t.
IsOverdue(task, t) ==
    /\ task.due_date \notin {NoDue, ZeroDate}
    /\ IsIsoFormat(task.due_date)
    /\ FromIsoFormat(task.due_date) < t

\* The tasks on the servers of the instances the invocation goes through, as
\* <<instance, task>>.
TasksOn(instance) ==
    LET projects == remote.servers[RStripSlash(instance.url)] IN
    UNION {{<<instance.name, projects[p].tasks[k]>> : k \in DOMAIN projects[p].tasks} :
              p \in DOMAIN projects}

TasksOnServers ==
    LET selected == Selected IN
    UNION {TasksOn(selected[i]) : i \in DOMAIN selected}

\* The tasks focus_now is to show: incomplete, and overdue or of priority >= 4.
NeedingAttention ==
    {<<it[1], it[2].id>> : it \in {x \in TasksOnServers :
        ~x[2].done /\ (IsOverdue(x[2], now) \/ x[2].priority >= 4)}}

Min(a, b) == IF a < b THEN a ELSE b

\* C7: focus_now returns all the matching tasks when limit is 0 and the first
\* min(limit, total_matching) of them when limit > 0; count is the number of
\* tasks returned and total_matching the number of matching tasks.
C7_FocusLimit ==
    call.op = "focus_now" =>
        LET all == focus_now(Snapshot, 0, now).tasks
            total == Cardinality(NeedingAttention)
            shown == IF call.limit = 0 THEN total ELSE Min(call.limit, total)
        IN  /\ out.value.total_matching = total
            /\ out.value.count = Len(out.value.tasks)
            /\ Len(out.value.tasks) = shown
            /\ Len(all) >= shown
            /\ out.value.tasks = SubSeq(all, 1, shown)

\* C7's case: two tasks match and limit is 1.
C7_Witness ==
    /\ call.op = "focus_now"
    /\ call.limit = 1
    /\ out.value.total_matching = 2
    /\ out.value.count = 1

\* C8: without a limit, focus_now returns exactly the incomplete tasks that
\* are overdue or have priority >= 4, each once.
C8_FocusSelection ==
    (call.op = "focus_now" /\ call.limit = 0) =>
        LET expected == NeedingAttention IN
        /\ {<<out.value.tasks[k].instance, out.value.tasks[k].id>> :
                k \in DOMAIN out.value.tasks} = expected
        /\ Len(out.value.tasks) = Cardinality(expected)

\* C8's case: a has a task of the past with priority 5, b's open task is due
\* next week with priority 1, and the task of a alone is returned.
C8_Witness ==
    /\ call.op = "focus_now"
    /\ call.limit = 0
    /\ call.instance = ""
    /\ Len(remote.servers[<<"a">>][1].tasks) = 1
    /\ remote.servers[<<"a">>][1].tasks[1].due_date = Past
    /\ remote.servers[<<"a">>][1].tasks[1].priority = 5
    /\ remote.servers[<<"b">>][1].tasks[1].due_date = NextWeek
    /\ remote.servers[<<"b">>][1].tasks[1].priority = 1
    /\ Identities(out.value.tasks) = << <<"a", 1>> >>

\* C9: the counters of task_summary are the counts of overdue_tasks,
\* due_today, due_this_week, high_priority_tasks, urgent_tasks and
\* unscheduled_tasks on the same snapshot at the same time, and total is the
\* number of incomplete tasks.
C9_SummaryCounts ==
    call.op = "task_summary" =>
        LET snapshot == Snapshot IN
        /\ out.value.overdue = overdue_tasks(snapshot, now).count
        /\ out.value.due_today = due_today(snapshot, now).count
        /\ out.value.due_this_week = due_this_week(snapshot, now).count
        /\ out.value.high_priority = high_priority_tasks(snapshot).count
        /\ out.value.urgent = urgent_tasks(snapshot).count
        /\ out.value.unscheduled = unscheduled_tasks(snapshot).count
        /\ out.value.total = Cardinality({x \in TasksOnServers : ~x[2].done})

\* C9's case: a task is due at the last instant of today and another later in
\* the week.
C9_Witness ==
    /\ call.op = "task_summary"
    /\ Len(remote.servers[<<"a">>][1].tasks) = 1
    /\ remote.servers[<<"a">>][1].tasks[1].due_date = AtTodayEnd
    /\ out.value.total = 2
    /\ out.value.overdue = 0
    /\ out.value.due_today = 1
    /\ out.value.due_this_week = 2

----------------------------------------------------------------------------
(* Ordering properties of the query tools *)

\* The task has a due date by the parsing rule, at or before instant t.
IsDueBy(task, t) ==
    /\ task.due_date \notin {NoDue, ZeroDate}
    /\ IsIsoFormat(task.due_date)
    /\ FromIsoFormat(task.due_date) <= t

\* C18: due_today returns exactly the open tasks due at or before the end of
\* the current day, in ascending order of the raw due-date string.
C18_DueTodayOrder ==
    call.op = "due_today" =>
        LET rows == out.value.tasks
            expected == {<<it[1], it[2].id>> : it \in {x \in TasksOnServers :
                            ~x[2].done /\ IsDueBy(x[2], TodayEnd(now))}}
        IN  /\ {<<rows[k].instance, rows[k].id>> : k \in DOMAIN rows} = expected
            /\ Len(rows) = Cardinality(expected)
            /\ \A i, j \in DOMAIN rows :
                  i < j => ~StrLess(rows[j].due_date, rows[i].due_date)

\* The row's due date is missing, or absent by the parsing rule.
HasNoDueDate(row) ==
    \/ row.due_date \in {NoDue, ZeroDate}
    \/ ~IsIsoFormat(row.due_date)

\* C19: focus_now lists by priority descending; within one priority the tasks
\* with a due date come first, in ascending order of due date, and the tasks
\* without one come after them; the limit keeps a prefix of that order.
C19_FocusOrder ==
    call.op = "focus_now" =>
        LET rows == out.value.tasks
            all == focus_now(Snapshot, 0, now).tasks
        IN  /\ Len(rows) <= Len(all)
            /\ rows = SubSeq(all, 1, Len(rows))
            /\ \A i, j \in DOMAIN rows :
                  i < j =>
                    /\ rows[i].priority >= rows[j].priority
                    /\ rows[i].priority = rows[j].priority =>
                          /\ HasNoDueDate(rows[i]) => HasNoDueDate(rows[j])
                          /\ (~HasNoDueDate(rows[i]) /\ ~HasNoDueDate(rows[j])) =>
                                FromIsoFormat(rows[i].due_date)
                                    <= FromIsoFormat(rows[j].due_date)

----------------------------------------------------------------------------
(* Kanban properties *)

IsAdd(req) ==
    /\ req.method = "POST"
    /\ req.endpoint.path = "/projects/{id}/views/{view}/buckets/{bucket}/tasks"

IsCommit(req) == req.method = "POST" /\ req.endpoint.path = "/tasks/{id}/position"

Answered(req) == <<req.method, req.endpoint>> \notin remote.failing

\* The two requests name the same task, view and bucket, in the path and in
\* the body.
SameMove(add, commit) ==
    /\ add.json.task_id = commit.json.task_id
    /\ add.json.project_view_id = commit.json.project_view_id
    /\ add.json.bucket_id = commit.json.bucket_id
    /\ add.endpoint.view = add.json.project_view_id
    /\ add.endpoint.bucket = add.json.bucket_id
    /\ commit.endpoint.id = commit.json.task_id

\* The places in the log of an add and its commit that both succeeded.
MovesDoneAt ==
    {i \in DOMAIN log :
        /\ IsAdd(log[i]) /\ Answered(log[i])
        /\ i < Len(log)
        /\ IsCommit(log[i + 1]) /\ Answered(log[i + 1])
        /\ SameMove(log[i], log[i + 1])}

MovesDone ==
    {<<log[i].json.task_id, log[i].json.project_view_id, log[i].json.bucket_id>> :
        i \in MovesDoneAt}

\* The bucket a created task was to go to: 0 when its input names none, or
\* one the kanban view does not have.
BucketAskedFor(title, tasks) ==
    LET input == tasks[CHOOSE i \in DOMAIN tasks : tasks[i].title = title] IN
    IF "bucket" \in DOMAIN input /\ KanbanViews(remote.server.views) # <<>>
    THEN BucketId(remote.server.buckets, input.bucket)
    ELSE 0

\* The moves <<task, view, bucket>> the result reports as made.
MovesReported ==
    IF out.kind # "return" THEN {}
    ELSE CASE call.op = "set_task_position" ->
                {<<out.value.task_id, call.view_id, out.value.bucket_id>>}
           [] call.op = "bulk_set_task_positions" ->
                {<<out.value.tasks[i].task_id, call.view_id, out.value.tasks[i].bucket_id>> :
                    i \in DOMAIN out.value.tasks}
           [] call.op = "move_tasks_by_label" ->
                {<<out.value.tasks[i].id, call.view_id, call.bucket_id>> :
                    i \in DOMAIN out.value.tasks}
           [] call.op = "claim_xq_task" /\ "claimed" \in DOMAIN out.value ->
                {<<out.value.claimed, KanbanView,
                   BucketId(remote.server.buckets, "Review")>>}
           [] call.op = "complete_xq_task" /\ "filed" \in DOMAIN out.value ->
                {<<out.value.filed, KanbanView,
                   BucketId(remote.server.buckets, "Filed")>>}
           [] call.op = "batch_create_tasks" ->
                {<<out.value.tasks[i].id, KanbanView,
                   BucketAskedFor(out.value.tasks[i].title, call.tasks)>> :
                    i \in {k \in DOMAIN out.value.tasks :
                              BucketAskedFor(out.value.tasks[k].title, call.tasks) # 0}}
           [] OTHER -> {}

\* The number of moves the result counts.
MovesCounted ==
    IF out.kind # "return" THEN 0
    ELSE CASE call.op = "bulk_set_task_positions" -> out.value.moved_count
           [] call.op = "move_tasks_by_label" -> out.value.moved
           [] call.op = "move_tasks_by_label_to_buckets" -> out.value.moved_count
           [] OTHER -> 0

\* C20: in every tool that moves tasks into buckets, a position commit comes
\* right after an add-to-bucket that succeeded and names the same task, view
\* and bucket; an add that succeeded is followed by its commit; and the
\* result reports, and counts, only moves whose two requests succeeded.
C20_TwoCallMove ==
    /\ \A i \in DOMAIN log :
          /\ IsCommit(log[i]) =>
                /\ i > 1
                /\ IsAdd(log[i - 1])
                /\ Answered(log[i - 1])
                /\ SameMove(log[i - 1], log[i])
          /\ (IsAdd(log[i]) /\ Answered(log[i])) =>
                /\ i < Len(log)
                /\ IsCommit(log[i + 1])
    /\ MovesReported \subseteq MovesDone
    /\ MovesCounted <= Cardinality(MovesDoneAt)

\* bulk_set_task_positions moved one task; the commit of the other failed
\* after its add, and that task is reported as an error.
C20_Witness ==
    /\ call.op = "bulk_set_task_positions"
    /\ Len(log) = 4
    /\ IsAdd(log[1]) /\ Answered(log[1])
    /\ IsCommit(log[2]) /\ ~Answered(log[2])
    /\ out.value.moved_count = 1
    /\ Len(out.value.errors) = 1
    /\ MovesReported = {<<13, KanbanView, 2>>}

----------------------------------------------------------------------------
(* The server machine: the module is imported, one decorator after the     *)
(* other, then main() runs the server and a client lists and calls tools.  *)

InitServer ==
    /\ tools = {}
    /\ tempFiles = <<>>
    /\ threads = <<>>
    /\ configFile = Absent
    /\ environ = <<>>
    /\ remote = <<>>
    /\ now = 0
    /\ call = [op |-> "import", next |-> 1]
    /\ out = NoOut
    /\ log = <<>>

\* The next @mcp.tool() of the module registers its function.
Register ==
    /\ call.op = "import"
    /\ call.next <= Len(Decorated)
    /\ tools' = add_tool(tools, Decorated[call.next])
    /\ call' = [call EXCEPT !.next = @ + 1]
    /\ UNCHANGED <<tempFiles, threads, configFile, environ, remote, now, out, log>>

\* main(): mcp.run(), once the module is imported.
Run ==
    /\ call.op = "import"
    /\ call.next > Len(Decorated)
    /\ call' = NoCall
    /\ UNCHANGED <<tools, tempFiles, threads, configFile, environ, remote, now, out, log>>

\* tools/list
ListTools ==
    /\ call = NoCall
    /\ call' = [op |-> "tools/list"]
    /\ out' = [kind |-> "return", value |-> tools]
    /\ UNCHANGED <<tools, tempFiles, threads, configFile, environ, remote, now, log>>

\* tools/call: the tool is looked up by its name.
CallTool(name) ==
    /\ call = NoCall
    /\ call' = [op |-> "tools/call", name |-> name]
    /\ out' = IF name \in tools THEN [kind |-> "return", value |-> {name}]
              ELSE [kind |-> "raise", error |-> Message("Unknown tool")]
    /\ UNCHANGED <<tools, tempFiles, threads, configFile, environ, remote, now, log>>

\* The result goes back to the client (there is none during the import).
Replied ==
    /\ call.op # "import"
    /\ Delivered

NextServer ==
    \/ Register
    \/ Run
    \/ ListTools
    \/ \E name \in Registry \cup {"get_instance"} : CallTool(name)
    \/ Replied

SpecServer == InitServer /\ [][NextServer]_vars

----------------------------------------------------------------------------
(* The setup machine: setup_kanban_board called again and again on a       *)
(* server that keeps what it creates. The server starts with one project,  *)
(* with or without a kanban view; it may put default buckets into a view   *)
(* it creates, and some kinds of request may fail.                         *)

\* The most projects the server holds, and the last bucket id it gives.
MaxBoards == 3
MaxBucketId == 5

SetupServers ==
    {[projects |-> <<[id |-> 1, title |-> "P"]>>,
      views |-> <<[id |-> 1, project_id |-> 1, title |-> "List", view_kind |-> "list"]>>
                \o kanban,
      buckets |-> IF kanban = <<>> THEN <<>>
                  ELSE <<[id |-> 1, view_id |-> 2, title |-> "Doing"]>>,
      tasks |-> <<>>,
      ids |-> [projects |-> 1, views |-> 2, buckets |-> 1, tasks |-> 0],
      auto |-> auto, failing |-> failing] :
        kanban \in {<<>>, <<[id |-> 2, project_id |-> 1, title |-> "Kanban",
                             view_kind |-> "kanban"]>>},
        auto \in BOOLEAN,
        failing \in {f \in SUBSET {<<"PUT", "/projects">>,
                                   <<"PUT", "/projects/{id}/views">>,
                                   <<"PUT", "/projects/{id}/views/{view}/buckets">>,
                                   <<"DELETE",
                                     "/projects/{id}/views/{view}/buckets/{bucket}">>} :
                         Cardinality(f) <= MaxFailing - 1}}

InitSetup ==
    /\ tools = Registry
    /\ tempFiles = <<>>
    /\ threads = <<>>
    /\ configFile \in {Absent, QueryConfigFile}
    /\ environ = FanEnv(FALSE, <<"s">>)
    /\ remote \in SetupServers
    /\ now = FanNow
    /\ call = NoCall
    /\ out = NoOut
    /\ log = <<>>

\* setup_kanban_board, after whatever invocation came before.
SetupKanbanBoard(project_id, project_title, template, custom_buckets, delete_default_buckets) ==
    /\ Len(remote.projects) < MaxBoards \/ project_title = ""
    /\ remote.ids.buckets < MaxBucketId
    /\ \E r \in {setup_kanban_board(project_id, project_title, template,
                                    custom_buckets, "Kanban", delete_default_buckets,
                                    _get_instance_config(NoneV, configFile, environ),
                                    remote)} :
           /\ call' = [op |-> "setup_kanban_board", project_id |-> project_id,
                       project_title |-> project_title, template |-> template,
                       custom_buckets |-> custom_buckets,
                       delete_default_buckets |-> delete_default_buckets]
           /\ out' = IF r.kind = "raise" THEN [kind |-> "raise", error |-> r.error]
                     ELSE [kind |-> "return", value |-> r.value]
           /\ log' = r.sent
           /\ remote' = r.rem
    /\ UNCHANGED <<tools, tempFiles, threads, configFile, environ, now>>

\* The templates asked for: one by its name, a custom one, and a custom one
\* without buckets (the gtd template is used).
SetupTemplates ==
    {<<"simple", <<>>>>, <<"custom", <<"X", "Doing">>>>, <<"custom", <<>>>>}

NextSetup ==
    \E project_id \in {0, 1}, project_title \in {"", "N"},
       template \in SetupTemplates, delete_default_buckets \in BOOLEAN :
        SetupKanbanBoard(project_id, project_title, template[1], template[2],
                         delete_default_buckets)

SpecSetup == InitSetup /\ [][NextSetup]_vars

----------------------------------------------------------------------------
(* The import machine: import_from_export on an instance that holds some   *)
(* projects, where some kinds of request may fail.                         *)

MaxImported == 2

\* An import begins while the instance holds at most this many projects.
MaxHeld == 2

ImportTitles == {<<"A">>, <<"a">>, <<"B">>}

\* An exported project, with its tasks or (title B) without the key.
Exported(title) ==
    IF title = <<"B">> THEN [id |-> 7, title |-> title]
    ELSE [id |-> 7, title |-> title, description |-> <<"d">>,
          tasks |-> <<[id |-> 70, title |-> <<"t">>, done |-> FALSE, priority |-> 2]>>]

Exports ==
    {[kind |-> "invalid"], [kind |-> "object", object |-> [exported_at |-> 0]]}
    \cup {[kind |-> "object",
           object |-> [projects |-> [i \in DOMAIN titles |-> Exported(titles[i])]]] :
             titles \in UNION {[1..k -> ImportTitles] : k \in 0..MaxImported}}

ImportServers ==
    {[projects |-> projects, views |-> <<>>, buckets |-> <<>>, tasks |-> <<>>,
      ids |-> [projects |-> Len(projects), views |-> 0, buckets |-> 0, tasks |-> 0],
      auto |-> FALSE, failing |-> failing] :
        projects \in {<<>>, <<[id |-> 1, title |-> <<"A">>]>>,
                      <<[id |-> 1, title |-> <<"b">>], [id |-> 2]>>},
        failing \in {f \in SUBSET {<<"GET", "/projects">>, <<"PUT", "/projects">>,
                                   <<"PUT", "/projects/{id}/tasks">>} :
                         Cardinality(f) <= MaxFailing - 1}}

InitImport ==
    /\ tools = Registry
    /\ tempFiles = <<>>
    /\ threads = <<>>
    /\ configFile \in {Absent, QueryConfigFile}
    /\ environ = FanEnv(FALSE, <<"s">>)
    /\ remote \in ImportServers
    /\ now = FanNow
    /\ call = NoCall
    /\ out = NoOut
    /\ log = <<>>

ImportFromExport(export_data, skip_existing) ==
    /\ call = NoCall
    /\ Len(remote.projects) <= MaxHeld
    /\ \E r \in {import_from_export(export_data, skip_existing,
                                    _get_instance_config(NoneV, configFile, environ),
                                    remote)} :
           /\ call' = [op |-> "import_from_export", export_data |-> export_data,
                       skip_existing |-> skip_existing]
           /\ out' = IF r.kind = "raise" THEN [kind |-> "raise", error |-> r.error]
                     ELSE [kind |-> "return", value |-> r.value]
           /\ log' = r.sent
           /\ remote' = r.rem
    /\ UNCHANGED <<tools, tempFiles, threads, configFile, environ, now>>

NextImport ==
    \/ \E export_data \in Exports, skip_existing \in BOOLEAN :
          ImportFromExport(export_data, skip_existing)
    \/ Delivered

SpecImport == InitImport /\ [][NextImport]_vars

----------------------------------------------------------------------------
(* Context properties *)

\* The invocation failed: it raised, or it returned an error; and its message.
Failed == out.kind = "raise" \/ (out.kind = "return" /\ "error" \in DOMAIN out.value)
FailureMessage == IF out.kind = "raise" THEN out.error ELSE out.value.error

\* The invocation names an instance that is not resolved.
UnknownInstanceNamed ==
    /\ "instance" \in DOMAIN call
    /\ Truthy(call.instance)
    /\ ~Has(_get_instances(configFile, environ), call.instance)

\* C11: selecting or looking up an instance by a name that is not resolved
\* fails with a "not found" message that lists the resolved instance names;
\* looking up the current instance when there is none fails with "No instance
\* configured".
C11_SelectionErrors ==
    /\ (call.op \in {"switch_instance", "set_active_context", "_get_instance_config"}
          /\ UnknownInstanceNamed) =>
           /\ Failed
           /\ FailureMessage.text = "not found"
           /\ "available" \in DOMAIN FailureMessage
           /\ FailureMessage.available = NamesOf(_get_instances(configFile, environ))
    /\ (call.op = "_get_instance_config" /\ call.instance = NoneV
          /\ _get_current_instance(configFile, environ) = NoneV) =>
           /\ out.kind = "raise"
           /\ out.error.text = "No instance configured"

\* C12: a tool invoked with the name of an instance that is not configured
\* returns {"error": message}: it neither raises nor returns a success.
C12_UnknownInstanceIsError ==
    (call.op \in {"switch_instance", "set_active_context", "overdue_tasks",
                  "list_all_tasks", "check_token_health"}
       /\ UnknownInstanceNamed) =>
        /\ out.kind = "return"
        /\ "error" \in DOMAIN out.value

----------------------------------------------------------------------------
(* Config store properties *)

\* C13: whatever the config file holds (absent, empty, some top-level keys
\* missing, fully populated), loading after the loaded structure was saved
\* back gives the structure of the first load, and saving it once more
\* leaves the file as the first save wrote it.
C13_RoundTrip ==
    /\ \A i \in DOMAIN log : log[i] = log[1]
    /\ (call.op = "_save_config" /\ call.saves > 1) => configFile = call.before

\* A file with a null current_instance was loaded, saved, loaded again and
\* saved again.
C13_Witness ==
    /\ call.op = "_save_config"
    /\ call.saves = 2
    /\ Len(log) = 2
    /\ "current_instance" \in DOMAIN log[1]
    /\ log[1].current_instance = NoneV
    /\ DOMAIN log[1].mcp_context = {"instance", "project_id"}
    /\ Len(log[1].instances) = 2
    /\ "xq" \in DOMAIN log[1]

Complete(file) ==
    \/ file \in StoreFiles
    \/ \E t \in Writers :
          threads[t].renamed /\ file = _save_config(threads[t].config)

\* C14: at every point of every save, the config file, and whatever any
\* invocation has read from it, is a complete document (the previous one or
\* a save's new one), never a part of one; a save that failed has not
\* replaced the file and has left no temp file.
C14_AtomicWrites ==
    /\ Complete(configFile)
    /\ \A t \in Writers :
          /\ \A i \in DOMAIN threads[t].reads : Complete(threads[t].reads[i])
          /\ (threads[t].pc = "done" /\ threads[t].out = SaveFailed) =>
                ~threads[t].renamed /\ t \notin DOMAIN tempFiles

\* One save failed after writing a part of its document, while the other
\* invocation saved and read the file back.
C14_Witness ==
    \E t, u \in Writers :
        /\ threads[t].pc = "done"
        /\ threads[t].out = SaveFailed
        /\ threads[u].pc = "done"
        /\ threads[u].renamed
        /\ log = <<u>>
        /\ configFile \notin StoreFiles

\* C15: however two writing invocations interleave, the config file is
\* exactly the document of the invocation that renamed last.
C15_LastWriterWins ==
    log # <<>> => configFile = _save_config(threads[log[Len(log)]].config)

\* Both invocations saved; switch_instance("b") renamed first and its change
\* is not in the file.
C15_Witness ==
    /\ Len(log) = 2
    /\ \A t \in Writers : threads[t].pc = "done"
    /\ threads[log[1]].call = SwitchCall("b")
    /\ threads[log[2]].call.op = "set_active_context"
    /\ _load_config(configFile).current_instance # "b"

\* C16: an invocation works on one snapshot of the config file: every read
\* of the file it makes gives the contents its first read gave, or, after
\* its own save, the document it saved.
C16_SingleSnapshot ==
    \A t \in Writers :
        \A i \in DOMAIN threads[t].reads :
            \/ threads[t].reads[i] = threads[t].reads[1]
            \/ /\ threads[t].renamed
               /\ threads[t].reads[i] = _save_config(threads[t].config)

----------------------------------------------------------------------------
(* Session context properties *)

\* The top-level keys of the config other than mcp_context, as loaded.
OtherKeys(file) == Without(_load_config(file), "mcp_context")

\* set_active_context has just returned its context.
ContextJustSet ==
    /\ call'.op = "set_active_context"
    /\ "error" \notin DOMAIN out'.value

\* C25: set_active_context(i, p) that succeeds leaves mcp_context.instance
\* equal to i, or removed when i is empty, and mcp_context.project_id equal
\* to p, or removed when p is 0, whatever they were; the other top-level keys
\* of the config (instances, current_instance, xq) are as they were.
C25_ContextFrame ==
    [][ContextJustSet =>
          LET context == _load_config(configFile').mcp_context
          IN  /\ call'.instance # "" =>
                    /\ "instance" \in DOMAIN context
                    /\ context.instance = call'.instance
              /\ call'.instance = "" => "instance" \notin DOMAIN context
              /\ call'.project_id # 0 =>
                    /\ "project_id" \in DOMAIN context
                    /\ context.project_id = call'.project_id
              /\ call'.project_id = 0 => "project_id" \notin DOMAIN context
              /\ OtherKeys(configFile') = OtherKeys(configFile)
      ]_vars

\* set_active_context("", 0) has cleared a context that held an instance and
\* a project, in a config whose current instance is b.
C25_Witness ==
    /\ call.op = "set_active_context"
    /\ call.instance = ""
    /\ call.project_id = 0
    /\ out.kind = "return"
    /\ "error" \notin DOMAIN out.value
    /\ _load_config(configFile).mcp_context = <<>>
    /\ Len(_load_config(configFile).instances) = 2
    /\ Get(_load_config(configFile), "current_instance", NoneV) = "b"

\* The names the config file selects are absent or name resolved instances.
SelectionValid(file, env) ==
    LET config == _load_config(file)
        selected == {Get(config, "current_instance", NoneV),
                     Get(config.mcp_context, "instance", NoneV)}
    IN  \A name \in selected :
            Truthy(name) => Has(_get_instances(file, env), name)

\* The current instance is none or a resolved instance.
CurrentResolved(file, env) ==
    \/ _get_current_instance(file, env) = NoneV
    \/ Has(_get_instances(file, env), _get_current_instance(file, env))

\* C26: from a config file whose current_instance and mcp_context.instance
\* are absent or name resolved instances, every step (switch_instance and
\* set_active_context, succeeding or failing, among them) leaves the set of
\* resolved instances as it was and the file in such a state, in which the
\* current instance is none or one of the resolved instances.
C26_CurrentIsResolved ==
    [][SelectionValid(configFile, environ) =>
          /\ NamesOf(_get_instances(configFile', environ'))
                = NamesOf(_get_instances(configFile, environ))
          /\ SelectionValid(configFile', environ')
          /\ CurrentResolved(configFile', environ')
      ]_vars

\* After switch_instance("b") and set_active_context("a", ...), and a failed
\* set_active_context("zz", ...), the current instance is a.
C26_Witness ==
    /\ call.op = "set_active_context"
    /\ call.instance = "zz"
    /\ "error" \in DOMAIN out.value
    /\ SelectionValid(configFile, environ)
    /\ Get(_load_config(configFile), "current_instance", NoneV) = "b"
    /\ _get_current_instance(configFile, environ) = "a"

\* C27: switch_instance or set_active_context naming an instance that is not
\* resolved leaves the config file exactly as it was.
C27_UnknownWritesNothing ==
    [][(/\ call'.op \in {"switch_instance", "set_active_context"}
        /\ call'.instance # ""
        /\ ~Has(_get_instances(configFile, environ), call'.instance))
          => configFile' = configFile
      ]_vars

\* set_active_context("zz", 7) has failed on a config file whose context
\* holds an instance and no project.
C27_Witness ==
    /\ call.op = "set_active_context"
    /\ call.instance = "zz"
    /\ call.project_id = 7
    /\ Failed
    /\ configFile.kind = "file"
    /\ DOMAIN _load_config(configFile).mcp_context = {"instance"}

----------------------------------------------------------------------------
(* Environment JSON properties *)

\* VIKUNJA_INSTANCES is set and cannot be processed: it is no JSON, or one of
\* its entries is no JSON object.
Unprocessable(env) ==
    /\ "VIKUNJA_INSTANCES" \in DOMAIN env
    /\ LET json == env["VIKUNJA_INSTANCES"] IN
        \/ json.kind = "invalid"
        \/ /\ json.kind = "list"
           /\ \E i \in DOMAIN json.items : json.items[i].kind # "object"
        \/ /\ json.kind = "dict"
           /\ \E i \in DOMAIN json.items : json.items[i].value.kind # "object"

\* C30: when VIKUNJA_INSTANCES is set and cannot be processed,
\* resolve_instances returns, and what it returns is the instances of the
\* config file plus the VIKUNJA_URL / VIKUNJA_TOKEN default: the environment
\* JSON adds nothing.
C30_UnprocessableAddsNothing ==
    (call.op = "_get_instances" /\ Unprocessable(environ)) =>
        /\ out.kind = "return"
        /\ out.value = AddEnvDefault(_load_config(configFile).instances, environ)

----------------------------------------------------------------------------
(* Handoff properties *)

\* The requests of the invocation that change the server, in order.
Mutating == SelectSeq(log, LAMBDA req : req.method # "GET")

\* The task the invocation names, as the server holds it (its id alone when
\* the server has no such task).
XqTaskOnServer ==
    IF \A i \in DOMAIN remote.server.tasks : remote.server.tasks[i].id # call.task_id
    THEN [id |-> call.task_id]
    ELSE remote.server.tasks[CHOOSE i \in DOMAIN remote.server.tasks :
                                remote.server.tasks[i].id = call.task_id]

\* The requests of a handoff into the bucket titled title: the update
\* (complete only), the add-to-bucket and the position commit.
XqUpdateOf(task) ==
    [method |-> "POST", endpoint |-> TaskEP(call.task_id),
     json |-> [description |->
                   (IF "description" \in DOMAIN task THEN task.description ELSE <<>>)
                   \o <<"Filed to", call.destination, "Filed at", now>>
                   \o (IF call.notes = "" THEN <<>> ELSE <<"Notes", call.notes>>),
               done |-> TRUE]]

XqAddOf(bucket_id) ==
    [method |-> "POST",
     endpoint |-> BucketTasksEP(KanbanProject, KanbanView, bucket_id),
     json |-> [task_id |-> call.task_id, bucket_id |-> bucket_id,
               project_view_id |-> KanbanView, project_id |-> KanbanProject]]

XqCommitOf(bucket_id) ==
    [method |-> "POST", endpoint |-> PositionEP(call.task_id),
     json |-> [project_view_id |-> KanbanView, task_id |-> call.task_id,
               bucket_id |-> bucket_id]]

XqSteps ==
    IF call.op = "complete_xq_task"
    THEN <<XqUpdateOf(XqTaskOnServer),
           XqAddOf(BucketId(remote.server.buckets, "Filed")),
           XqCommitOf(BucketId(remote.server.buckets, "Filed"))>>
    ELSE <<XqAddOf(BucketId(remote.server.buckets, "Review")),
           XqCommitOf(BucketId(remote.server.buckets, "Review"))>>

\* The method, endpoint and body of a request that was sent.
Sent(req) == [method |-> req.method, endpoint |-> req.endpoint, json |-> req.json]

\* The place in the log of the first request that changes the server.
FirstMutating == CHOOSE i \in DOMAIN log : log[i].method # "GET"
                                            /\ \A j \in 1..(i - 1) : log[j].method = "GET"

\* C23: complete_xq_task reads the task, updates it with the description it
\* read followed by the filing note and done = true, then adds it to the
\* Filed bucket and commits the position, each step after the one before has
\* succeeded; claim_xq_task reads the task and moves it to the Review bucket.
\* Nothing is changed on the server unless the kanban view has the bucket, and
\* an invocation that returns an error has changed nothing.
C23_HandoffOrder ==
    call.op \in {"claim_xq_task", "complete_xq_task"} =>
        /\ Len(Mutating) <= Len(XqSteps)
        /\ \A i \in DOMAIN Mutating :
              /\ Sent(Mutating[i]) = XqSteps[i]
              /\ i > 1 => Answered(Mutating[i - 1])
        /\ Mutating # <<>> =>
              /\ FirstMutating > 1
              /\ Sent(log[FirstMutating - 1])
                    = [method |-> "GET", endpoint |-> TaskEP(call.task_id),
                       json |-> <<>>]
              /\ \A j \in FirstMutating..Len(log) : log[j].method # "GET"
              /\ call.instance \in DOMAIN _load_config(configFile).xq
              /\ KanbanViews(remote.server.views) # <<>>
              /\ XqSteps[Len(XqSteps)].json.bucket_id # 0
        /\ (out.kind = "return" /\ "error" \in DOMAIN out.value) => Mutating = <<>>
        /\ (out.kind = "return" /\ "error" \notin DOMAIN out.value) =>
              /\ Len(Mutating) = Len(XqSteps)
              /\ Answered(Mutating[Len(Mutating)])

\* complete_xq_task, with notes, has filed a task that had a description:
\* the three requests went out after the task was read.
C23_Witness ==
    /\ call.op = "complete_xq_task"
    /\ call.notes = "n"
    /\ out.kind = "return"
    /\ "filed" \in DOMAIN out.value
    /\ "description" \in DOMAIN XqTaskOnServer
    /\ Len(Mutating) = 3
    /\ Len(Mutating[1].json.description) = 7
    /\ Mutating[1].json.done

----------------------------------------------------------------------------
(* Batch properties *)

\* The task-creation requests of the invocation that the server answered.
CreationsDone ==
    {i \in DOMAIN log :
        /\ log[i].method = "PUT"
        /\ log[i].endpoint = TasksEP(KanbanProject)
        /\ Answered(log[i])}

\* C28: batch_create_tasks reports every task the server created: created is
\* the number of task-creation requests that succeeded, and each of these
\* tasks is in tasks, also when the move of the task into its bucket failed.
C28_CreatedAreReported ==
    (call.op = "batch_create_tasks" /\ out.kind = "return") =>
        /\ out.value.created = Cardinality(CreationsDone)
        /\ \A i \in CreationsDone :
              \E k \in DOMAIN out.value.tasks :
                  /\ out.value.tasks[k].id = NewTaskId(log[i].json.title)
                  /\ out.value.tasks[k].title = log[i].json.title

\* The entries of the invocation, its success counter, and whether an entry
\* is invalid (it is reported without a request).
EntriesOf ==
    CASE call.op = "batch_update_tasks" -> call.updates
      [] call.op = "batch_set_positions" -> call.positions
      [] call.op = "bulk_set_task_positions" -> call.assignments

SuccessCount ==
    IF call.op = "bulk_set_task_positions" THEN out.value.moved_count
    ELSE out.value.updated

IsInvalid(entry) ==
    \/ "task_id" \notin DOMAIN entry
    \/ entry.task_id = 0
    \/ call.op = "batch_set_positions" /\ "position" \notin DOMAIN entry
    \/ call.op = "bulk_set_task_positions" /\ "bucket_id" \notin DOMAIN entry

\* The first request an entry gives rise to.
FirstRequestOf(entry) ==
    CASE call.op = "batch_update_tasks" ->
            [method |-> "GET", endpoint |-> TaskEP(entry.task_id)]
      [] call.op = "batch_set_positions" ->
            [method |-> "POST", endpoint |-> PositionEP(entry.task_id)]
      [] call.op = "bulk_set_task_positions" ->
            [method |-> "POST",
             endpoint |-> BucketTasksEP(KanbanProject, KanbanView, entry.bucket_id)]

FirstRequests ==
    SelectSeq(log, LAMBDA req :
        \E i \in DOMAIN EntriesOf :
            /\ ~IsInvalid(EntriesOf[i])
            /\ [method |-> req.method, endpoint |-> req.endpoint]
                  = FirstRequestOf(EntriesOf[i])
            /\ call.op = "bulk_set_task_positions" =>
                  req.json.task_id = EntriesOf[i].task_id)

\* C29: batch_update_tasks, batch_set_positions and bulk_set_task_positions
\* account for every entry once: the success counter plus the number of
\* errors is the number of entries, the counter is the number of rows in
\* tasks, and (when there is an instance to send to) every valid entry has
\* its request sent, whatever happened to the entries before it.
C29_EveryEntryAccounted ==
    call.op \in {"batch_update_tasks", "batch_set_positions",
                 "bulk_set_task_positions"} =>
        /\ out.kind = "return"
        /\ SuccessCount + Len(out.value.errors) = Len(EntriesOf)
        /\ SuccessCount = Len(out.value.tasks)
        /\ _get_instance_config(NoneV, configFile, environ).kind # "error" =>
              Len(FirstRequests)
                = Cardinality({i \in DOMAIN EntriesOf : ~IsInvalid(EntriesOf[i])})

\* batch_set_positions was given a task whose request failed and then a
\* task whose request succeeded: one error, one update.
C29_Witness ==
    /\ call.op = "batch_set_positions"
    /\ Len(call.positions) = 2
    /\ Len(log) = 2
    /\ ~Answered(log[1])
    /\ out.value.updated = 1
    /\ Len(out.value.errors) = 1

----------------------------------------------------------------------------
(* Server properties *)

\* C24: once the module is imported, the server has exactly 19 tools.
C24_NineteenTools ==
    call.op # "import" => Cardinality(tools) = 19

----------------------------------------------------------------------------
(* Setup properties *)

\* The projects, views and buckets the server holds.
ServerSets(rem) ==
    [projects |-> {rem.projects[i] : i \in DOMAIN rem.projects},
     views |-> {rem.views[i] : i \in DOMAIN rem.views},
     buckets |-> {rem.buckets[i] : i \in DOMAIN rem.buckets}]

\* C21: when setup_kanban_board has returned and is called again with the
\* same arguments, on a server where no request fails, the server holds after
\* the second call the projects, views and buckets it held after the first.
C21_SetupIdempotent ==
    [][(/\ call.op = "setup_kanban_board"
        /\ out.kind = "return"
        /\ remote.failing = {}
        /\ call' = call)
          => ServerSets(remote') = ServerSets(remote)
      ]_vars

----------------------------------------------------------------------------
(* Import properties *)

\* The places in the log of the requests that created a project.
ProjectsCreatedAt ==
    {i \in DOMAIN log :
        /\ log[i].method = "PUT"
        /\ log[i].endpoint = ProjectsRootEP
        /\ <<"PUT", "/projects">> \notin remote.failing}

\* The projects the instance held before the invocation: all but the ones
\* it created.
ProjectsBefore ==
    SubSeq(remote.projects, 1, Len(remote.projects) - Cardinality(ProjectsCreatedAt))

LowerTitles(projects) ==
    {Lower(Get(projects[i], "title", <<>>)) : i \in DOMAIN projects}

\* The projects of the export, when it has any.
ProjectsToImport ==
    IF call.export_data.kind = "invalid" THEN <<>>
    ELSE Get(call.export_data.object, "projects", <<>>)

\* C22: with skip_existing, import_from_export creates no project whose
\* title is, in lower case, the title of a project the instance held or of a
\* project created earlier in the import; every project of the export whose
\* title the instance held is in skipped.
C22_NoDuplicateImport ==
    (call.op = "import_from_export" /\ call.skip_existing /\ out.kind = "return") =>
        /\ \A i \in ProjectsCreatedAt :
              /\ Lower(log[i].json.title) \notin LowerTitles(ProjectsBefore)
              /\ \A j \in ProjectsCreatedAt :
                    j < i => Lower(log[j].json.title) # Lower(log[i].json.title)
        /\ \A k \in DOMAIN ProjectsToImport :
              Lower(ProjectsToImport[k].title) \in LowerTitles(ProjectsBefore) =>
                  \E n \in DOMAIN out.value.skipped :
                      out.value.skipped[n] = ProjectsToImport[k].title

====
